---- MODULE Spec2Model ----
(***************************************************************************)
(* A model of the UTF-8 codec of neacsu/utf8 (utf8.cpp, utf8.h): the       *)
(* encoder, the forward and reverse decoders in their iterator and pointer *)
(* forms, the UTF-16 narrowing, the validity checks and the thread-local   *)
(* error mode.                                                             *)
(*                                                                         *)
(* Bytes are naturals 0..255, a cursor is a 0-based offset into a buffer,  *)
(* a std::string is the sequence of its bytes and its c_str() is that      *)
(* sequence followed by one NUL.  Bit tests on a byte are written          *)
(* arithmetically: (b & 0x80) == 0 is b < 128, (b & 0xC0) == 0x80 is       *)
(* b \div 64 = 2, and so on.                                               *)
(***************************************************************************)
EXTENDS Integers, Sequences, FiniteSets, TLC

(***************************************************************************)
(* Bounds of the model.                                                    *)
(***************************************************************************)
\* an input buffer is the concatenation of at most MaxUnits fragments
MaxUnits == 2
\* a wide or UTF-32 input has at most MaxWide units
MaxWide == 2
\* a loop that appends to its output without moving its cursor is followed
\* until the output holds MaxOut elements
MaxOut == 13

(***************************************************************************)
(* Program constants.                                                      *)
(***************************************************************************)
REPLACEMENT_CHARACTER == 65533

\* enum action { replace, except }
Actions == {"replace", "except"}

\* the value of a call that threw: there is none
NoRune == -1

Threads == {1, 2}

(***************************************************************************)
(* The error mode: throw_or_replace.                                       *)
(***************************************************************************)
throw_or_replace(err, mode) ==
  IF mode = "except"
    THEN [rune |-> NoRune, err |-> err]
    ELSE [rune |-> REPLACEMENT_CHARACTER, err |-> "none"]

\* a decoder's "return throw_or_replace (invalid_utf8)" with the cursor at ptr
Fail(ptr, mode, lo, hi) ==
  LET r == throw_or_replace("invalid_utf8", mode)
  IN [rune |-> r.rune, err |-> r.err, ptr |-> ptr, bad |-> TRUE,
      lo |-> lo, hi |-> hi]

\* a decoder's "return rune" with the cursor at ptr
Ok(rune, ptr, lo, hi) ==
  [rune |-> rune, err |-> "none", ptr |-> ptr, bad |-> FALSE,
   lo |-> lo, hi |-> hi]

(***************************************************************************)
(* Byte access.  At reads the byte at a 0-based offset of a buffer.        *)
(***************************************************************************)
At(s, p) == s[p + 1]

\* (b & 0xC0) == 0x80
IsCont(b) == b \div 64 = 2

RECURSIVE Pow64(_)
Pow64(n) == IF n = 0 THEN 1 ELSE 64 * Pow64(n - 1)

(***************************************************************************)
(* encode (char32_t c, std::string& s): the result is the string after     *)
(* the call, or the failure thrown (the string is then unchanged).         *)
(***************************************************************************)
\* encode with the 2-byte limit written c <= 0x800
encode_limit_slip(c, s, mode) ==
  IF c <= 127 THEN [out |-> Append(s, c), err |-> "none"]
  ELSE IF c <= 2048
    THEN [out |-> s \o <<192 + (c \div 64), 128 + (c % 64)>>, err |-> "none"]
  ELSE IF c <= 65535
    THEN LET r == IF c >= 55296 /\ c <= 57343
                    THEN throw_or_replace("invalid_char32", mode)
                    ELSE [rune |-> c, err |-> "none"]
             d == r.rune
         IN IF r.err /= "none" THEN [out |-> s, err |-> r.err]
            ELSE [out |-> s \o <<224 + (d \div 4096), 128 + ((d \div 64) % 64),
                                 128 + (d % 64)>>, err |-> "none"]
  ELSE IF c <= 1114111
    THEN [out |-> s \o <<240 + (c \div 262144), 128 + ((c \div 4096) % 64),
                         128 + ((c \div 64) % 64), 128 + (c % 64)>>,
          err |-> "none"]
  ELSE IF mode = "except" THEN [out |-> s, err |-> "invalid_char32"]
  ELSE [out |-> s \o <<239, 191, 189>>, err |-> "none"]

\* encode with the surrogate test written c >= 0xD800 && c < 0xdfff
encode_surrogate_slip(c, s, mode) ==
  IF c <= 127 THEN [out |-> Append(s, c), err |-> "none"]
  ELSE IF c <= 2047
    THEN [out |-> s \o <<192 + (c \div 64), 128 + (c % 64)>>, err |-> "none"]
  ELSE IF c <= 65535
    THEN LET r == IF c >= 55296 /\ c < 57343
                    THEN throw_or_replace("invalid_char32", mode)
                    ELSE [rune |-> c, err |-> "none"]
             d == r.rune
         IN IF r.err /= "none" THEN [out |-> s, err |-> r.err]
            ELSE [out |-> s \o <<224 + (d \div 4096), 128 + ((d \div 64) % 64),
                                 128 + (d % 64)>>, err |-> "none"]
  ELSE IF c <= 1114111
    THEN [out |-> s \o <<240 + (c \div 262144), 128 + ((c \div 4096) % 64),
                         128 + ((c \div 64) % 64), 128 + (c % 64)>>,
          err |-> "none"]
  ELSE IF mode = "except" THEN [out |-> s, err |-> "invalid_char32"]
  ELSE [out |-> s \o <<239, 191, 189>>, err |-> "none"]

encode(c, s, mode) ==
  IF c <= 127 THEN [out |-> Append(s, c), err |-> "none"]
  ELSE IF c <= 2047
    THEN [out |-> s \o <<192 + (c \div 64), 128 + (c % 64)>>, err |-> "none"]
  ELSE IF c <= 65535
    THEN LET r == IF c >= 55296 /\ c <= 57343
                    THEN throw_or_replace("invalid_char32", mode)
                    ELSE [rune |-> c, err |-> "none"]
             d == r.rune
         IN IF r.err /= "none" THEN [out |-> s, err |-> r.err]
            ELSE [out |-> s \o <<224 + (d \div 4096), 128 + ((d \div 64) % 64),
                                 128 + (d % 64)>>, err |-> "none"]
  ELSE IF c <= 1114111
    THEN [out |-> s \o <<240 + (c \div 262144), 128 + ((c \div 4096) % 64),
                         128 + ((c \div 64) % 64), 128 + (c % 64)>>,
          err |-> "none"]
  ELSE IF mode = "except" THEN [out |-> s, err |-> "invalid_char32"]
  ELSE [out |-> s \o <<239, 191, 189>>, err |-> "none"]

(***************************************************************************)
(* next (std::string::const_iterator& ptr, const_iterator last)            *)
(***************************************************************************)
\* do { ++ptr; } while (ptr != last && (*ptr & 0x80) == 0x80): the while part
RECURSIVE skip_high_it(_, _, _)
skip_high_it(s, p, last) ==
  IF p /= last /\ At(s, p) >= 128 THEN skip_high_it(s, p + 1, last) ELSE p

\* the skip after an invalid lead byte written as a while loop, entered
\* with the cursor still on that byte (p is one beyond the cursor)
RECURSIVE skip_cont_it_while(_, _, _)
skip_cont_it_while(s, p, last) ==
  IF p - 1 /= last /\ IsCont(At(s, p - 1))
    THEN skip_cont_it_while(s, p + 1, last)
    ELSE p - 1

\* do { ++ptr; } while (ptr != last && (*ptr & 0xC0) == 0x80): the while part
RECURSIVE skip_cont_it(_, _, _)
skip_cont_it(s, p, last) ==
  IF p /= last /\ IsCont(At(s, p)) THEN skip_cont_it(s, p + 1, last) ELSE p

\* for (i=0; i<cont && ptr != last && (*ptr & 0xC0) == 0x80; i++) ...
RECURSIVE read_cont_it(_, _, _, _, _, _)
read_cont_it(s, p, last, cont, i, rune) ==
  IF i < cont /\ p /= last /\ IsCont(At(s, p))
    THEN read_cont_it(s, p + 1, last, cont, i + 1, rune * 64 + (At(s, p) % 64))
    ELSE [i |-> i, ptr |-> p, rune |-> rune]

\* the sanity checks with the cursor put back to the start of the sequence
\* when continuation bytes are missing
sanity_checks_rewind(r, cont, mode, lo, hi) ==
  IF r.i /= cont THEN Fail(lo, mode, lo, hi)
  ELSE IF 55296 <= r.rune /\ r.rune <= 57343 THEN Fail(r.ptr, mode, lo, hi)
  ELSE IF r.rune < 128 \/ (cont > 1 /\ r.rune < 2048)
          \/ (cont > 2 /\ r.rune < 65536)
    THEN Fail(r.ptr, mode, lo, hi)
  ELSE Ok(r.rune, r.ptr, lo, hi)

\* the sanity checks with the 4-byte overlong limit written 0x1000
sanity_checks_overlong_slip(r, cont, mode, lo, hi) ==
  IF r.i /= cont THEN Fail(r.ptr, mode, lo, hi)
  ELSE IF 55296 <= r.rune /\ r.rune <= 57343 THEN Fail(r.ptr, mode, lo, hi)
  ELSE IF r.rune < 128 \/ (cont > 1 /\ r.rune < 2048)
          \/ (cont > 2 /\ r.rune < 4096)
    THEN Fail(r.ptr, mode, lo, hi)
  ELSE Ok(r.rune, r.ptr, lo, hi)

\* the sanity checks after the continuation bytes were read
sanity_checks(r, cont, mode, lo, hi) ==
  IF r.i /= cont THEN Fail(r.ptr, mode, lo, hi)
  ELSE IF 55296 <= r.rune /\ r.rune <= 57343 THEN Fail(r.ptr, mode, lo, hi)
  ELSE IF r.rune < 128 \/ (cont > 1 /\ r.rune < 2048)
          \/ (cont > 2 /\ r.rune < 65536)
    THEN Fail(r.ptr, mode, lo, hi)
  ELSE Ok(r.rune, r.ptr, lo, hi)

\* the offset of the last byte a bounded scan read, which stopped at p
HiIt(p, last, stoppedByByte) ==
  IF p /= last /\ stoppedByByte THEN p ELSE p - 1

next_it(s, ptr, last, mode) ==
  IF ptr = last THEN Fail(ptr, mode, ptr, ptr - 1)
  ELSE LET b == At(s, ptr) IN
    IF b < 128 THEN Ok(b, ptr + 1, ptr, ptr)
    ELSE IF IsCont(b)
      THEN LET p == skip_high_it(s, ptr + 1, last)
           IN Fail(p, mode, ptr, HiIt(p, last, TRUE))
    ELSE LET cont == IF b \div 32 = 6 THEN 1
                     ELSE IF b \div 16 = 14 THEN 2
                     ELSE IF b \div 8 = 30 THEN 3
                     ELSE 0
             rune == IF cont = 1 THEN b % 32
                     ELSE IF cont = 2 THEN b % 16
                     ELSE b % 8
         IN IF cont = 0
              THEN LET p == skip_cont_it(s, ptr + 1, last)
                   IN Fail(p, mode, ptr, HiIt(p, last, TRUE))
              ELSE LET r == read_cont_it(s, ptr + 1, last, cont, 0, rune)
                   IN sanity_checks(r, cont, mode, ptr,
                                    HiIt(r.ptr, last, r.i < cont))

\* the skip over a run of continuation bytes with the mask 0xC0 of the other
\* skip loop in place of 0x80
RECURSIVE skip_high_ptr_cont_mask(_, _)
skip_high_ptr_cont_mask(m, p) ==
  IF At(m, p) /= 0 /\ IsCont(At(m, p)) THEN skip_high_ptr_cont_mask(m, p + 1) ELSE p

(***************************************************************************)
(* next (const char*& ptr): the buffer is read until a NUL, no end bound.  *)
(***************************************************************************)
\* do { ptr++; } while (*ptr && (*ptr & 0x80) == 0x80): the while part
RECURSIVE skip_high_ptr(_, _)
skip_high_ptr(m, p) ==
  IF At(m, p) /= 0 /\ At(m, p) >= 128 THEN skip_high_ptr(m, p + 1) ELSE p

\* do { ptr++; } while (*ptr && (*ptr & 0xC0) == 0x80): the while part
RECURSIVE skip_cont_ptr(_, _)
skip_cont_ptr(m, p) ==
  IF At(m, p) /= 0 /\ IsCont(At(m, p)) THEN skip_cont_ptr(m, p + 1) ELSE p

\* for (i = 0; i < cont && (*ptr & 0xC0) == 0x80; i++) ...
RECURSIVE read_cont_ptr(_, _, _, _, _)
read_cont_ptr(m, p, cont, i, rune) ==
  IF i < cont /\ IsCont(At(m, p))
    THEN read_cont_ptr(m, p + 1, cont, i + 1, rune * 64 + (At(m, p) % 64))
    ELSE [i |-> i, ptr |-> p, rune |-> rune]

\* next (const char*&) with ++ptr done for the NUL as for any other byte
next_ptr_advance_nul(m, ptr, mode) ==
  LET b == At(m, ptr) IN
    IF b < 128 THEN Ok(b, ptr + 1, ptr, ptr)
    ELSE IF IsCont(b)
      THEN LET p == skip_high_ptr(m, ptr + 1) IN Fail(p, mode, ptr, p)
    ELSE LET cont == IF b \div 32 = 6 THEN 1
                     ELSE IF b \div 16 = 14 THEN 2
                     ELSE IF b \div 8 = 30 THEN 3
                     ELSE 0
             rune == IF cont = 1 THEN b % 32
                     ELSE IF cont = 2 THEN b % 16
                     ELSE b % 8
         IN IF cont = 0
              THEN LET p == skip_cont_ptr(m, ptr + 1) IN Fail(p, mode, ptr, p)
              ELSE LET r == read_cont_ptr(m, ptr + 1, cont, 0, rune)
                   IN sanity_checks(r, cont, mode, ptr,
                                    IF r.i < cont THEN r.ptr ELSE r.ptr - 1)

next_ptr(m, ptr, mode) ==
  LET b == At(m, ptr) IN
    IF b < 128 THEN Ok(b, IF b /= 0 THEN ptr + 1 ELSE ptr, ptr, ptr)
    ELSE IF IsCont(b)
      THEN LET p == skip_high_ptr(m, ptr + 1) IN Fail(p, mode, ptr, p)
    ELSE LET cont == IF b \div 32 = 6 THEN 1
                     ELSE IF b \div 16 = 14 THEN 2
                     ELSE IF b \div 8 = 30 THEN 3
                     ELSE 0
             rune == IF cont = 1 THEN b % 32
                     ELSE IF cont = 2 THEN b % 16
                     ELSE b % 8
         IN IF cont = 0
              THEN LET p == skip_cont_ptr(m, ptr + 1) IN Fail(p, mode, ptr, p)
              ELSE LET r == read_cont_ptr(m, ptr + 1, cont, 0, rune)
                   IN sanity_checks(r, cont, mode, ptr,
                                    IF r.i < cont THEN r.ptr ELSE r.ptr - 1)

\* the loop of TEST (next_ptr): while (utf8::next (ptr)) i++;
RECURSIVE next_loop(_, _, _, _)
next_loop(m, ptr, i, mode) ==
  LET r == next_ptr(m, ptr, mode) IN
    IF r.err /= "none" THEN [count |-> i, ptr |-> r.ptr, err |-> r.err]
    ELSE IF r.rune = 0 THEN [count |-> i, ptr |-> r.ptr, err |-> "none"]
    ELSE next_loop(m, r.ptr, i + 1, mode)

(***************************************************************************)
(* prev (std::string::const_iterator& ptr, const_iterator first) and       *)
(* prev (const char*& ptr).  The pointer form has no lower bound: the      *)
(* bytes it may read before the buffer are pre, the last of them at        *)
(* offset -1.                                                              *)
(***************************************************************************)
RdAt(m, pre, q) == IF q >= 0 THEN At(m, q) ELSE pre[Len(pre) + q + 1]

\* while (((ch = *--ptr) & 0xc0) == 0x80 && cont < 3 && ptr > first) ...
RECURSIVE prev_scan_it(_, _, _, _, _)
prev_scan_it(s, p, first, cont, rune) ==
  LET q == p - 1
      ch == At(s, q)
  IN IF IsCont(ch) /\ cont < 3 /\ q > first
       THEN prev_scan_it(s, q, first, cont + 1,
                         rune + (ch % 64) * Pow64(cont))
       ELSE [ptr |-> q, ch |-> ch, cont |-> cont, rune |-> rune]

\* while (((ch = *--ptr) & 0xc0) == 0x80 && cont < 3) ...
RECURSIVE prev_scan_ptr(_, _, _, _, _)
prev_scan_ptr(m, pre, p, cont, rune) ==
  LET q == p - 1
      ch == RdAt(m, pre, q)
  IN IF IsCont(ch) /\ cont < 3
       THEN prev_scan_ptr(m, pre, q, cont + 1,
                          rune + (ch % 64) * Pow64(cont))
       ELSE [ptr |-> q, ch |-> ch, cont |-> cont, rune |-> rune]

\* the lead-byte test after the scan: the rune, or -1 when no branch matches
prev_lead(sc) ==
  IF sc.cont = 3 /\ sc.ch \div 8 = 30 THEN sc.rune + (sc.ch % 16) * 262144
  ELSE IF sc.cont = 2 /\ sc.ch \div 16 = 14 THEN sc.rune + (sc.ch % 32) * 4096
  ELSE IF sc.cont = 1 /\ sc.ch \div 32 = 6 THEN sc.rune + (sc.ch % 64) * 64
  ELSE IF sc.cont = 0 /\ sc.ch < 127 THEN sc.rune + sc.ch
  ELSE -1

\* prev without "ptr = in_ptr" before the failure is reported
prev_finish_no_restore(sc, in_ptr, mode) ==
  LET rune == prev_lead(sc) IN
    IF rune = -1 THEN Fail(sc.ptr, mode, sc.ptr, in_ptr - 1)
    ELSE IF (55296 <= rune /\ rune <= 57343)
            \/ (sc.cont > 0 /\ rune < 128)
            \/ (sc.cont > 1 /\ rune < 2048)
            \/ (sc.cont > 2 /\ rune < 65536)
      THEN Fail(sc.ptr, mode, sc.ptr, in_ptr - 1)
    ELSE Ok(rune, sc.ptr, sc.ptr, in_ptr - 1)

\* prev without the test for surrogate values
prev_finish_no_surrogate(sc, in_ptr, mode) ==
  LET rune == prev_lead(sc) IN
    IF rune = -1 THEN Fail(in_ptr, mode, sc.ptr, in_ptr - 1)
    ELSE IF (sc.cont > 0 /\ rune < 128)
            \/ (sc.cont > 1 /\ rune < 2048)
            \/ (sc.cont > 2 /\ rune < 65536)
      THEN Fail(in_ptr, mode, sc.ptr, in_ptr - 1)
    ELSE Ok(rune, sc.ptr, sc.ptr, in_ptr - 1)

\* the part of prev after the scan, common to both forms
prev_finish(sc, in_ptr, mode) ==
  LET rune == prev_lead(sc) IN
    IF rune = -1 THEN Fail(in_ptr, mode, sc.ptr, in_ptr - 1)
    ELSE IF (55296 <= rune /\ rune <= 57343)
            \/ (sc.cont > 0 /\ rune < 128)
            \/ (sc.cont > 1 /\ rune < 2048)
            \/ (sc.cont > 2 /\ rune < 65536)
      THEN Fail(in_ptr, mode, sc.ptr, in_ptr - 1)
    ELSE Ok(rune, sc.ptr, sc.ptr, in_ptr - 1)

prev_it(s, ptr, first, mode) ==
  prev_finish(prev_scan_it(s, ptr, first, 0, 0), ptr, mode)

prev_ptr(m, pre, ptr, mode) ==
  prev_finish(prev_scan_ptr(m, pre, ptr, 0, 0), ptr, mode)

(***************************************************************************)
(* narrow (const std::wstring& ws), the portable branch.  A call that      *)
(* throws returns no string.                                               *)
(***************************************************************************)
RECURSIVE narrow_ws_from(_, _, _, _)
narrow_ws_from(ws, in, out, mode) ==
  IF in = Len(ws) THEN [out |-> out, err |-> "none"]
  ELSE
    LET c == ws[in + 1]
        bad == throw_or_replace("invalid_wchar", mode)
        st == IF 56319 < c /\ c < 57343
                THEN [r |-> bad, in |-> in + 1]
              ELSE IF c > 55295 /\ c < 56320
                THEN IF in + 1 = Len(ws)
                       THEN [r |-> bad, in |-> in + 1]
                       ELSE LET cl == ws[in + 2] IN
                         IF cl < 56320 \/ cl > 57343
                           THEN [r |-> bad, in |-> in + 2]
                           ELSE [r |-> [rune |-> (((c - 55296) * 1024)
                                                  + (cl - 56320)) + 65536,
                                        err |-> "none"],
                                 in |-> in + 2]
              ELSE [r |-> [rune |-> c, err |-> "none"], in |-> in + 1]
    IN IF st.r.err /= "none" THEN [out |-> <<>>, err |-> st.r.err]
       ELSE LET e == encode(st.r.rune, out, mode) IN
         IF e.err /= "none" THEN [out |-> <<>>, err |-> e.err]
         ELSE narrow_ws_from(ws, st.in, e.out, mode)

narrow_ws(ws, mode) == narrow_ws_from(ws, 0, <<>>, mode)

(***************************************************************************)
(* narrow (const std::u32string& s)                                        *)
(***************************************************************************)
RECURSIVE narrow_u32_from(_, _, _, _)
narrow_u32_from(s, p, str, mode) ==
  IF p = Len(s) THEN [out |-> str, err |-> "none"]
  ELSE LET e == encode(s[p + 1], str, mode) IN
    IF e.err /= "none" THEN [out |-> <<>>, err |-> e.err]
    ELSE narrow_u32_from(s, p + 1, e.out, mode)

narrow_u32(s, mode) == narrow_u32_from(s, 0, <<>>, mode)

(***************************************************************************)
(* runes (const std::string& s): nbad counts the code points for which     *)
(* the decoder went through throw_or_replace.                              *)
(***************************************************************************)
RECURSIVE runes_from(_, _, _, _, _)
runes_from(s, ptr, str, nbad, mode) ==
  IF ptr = Len(s) THEN [out |-> str, err |-> "none", nbad |-> nbad]
  ELSE LET r == next_it(s, ptr, Len(s), mode) IN
    IF r.err /= "none" THEN [out |-> <<>>, err |-> r.err, nbad |-> nbad + 1]
    ELSE runes_from(s, r.ptr, Append(str, r.rune),
                    nbad + (IF r.bad THEN 1 ELSE 0), mode)

runes_str(s, mode) == runes_from(s, 0, <<>>, 0, mode)

(***************************************************************************)
(* widen (const std::string& s), the portable branch: a code point below   *)
(* 0x10000 gives one unit, any other the two units of a surrogate pair.    *)
(***************************************************************************)
\* widen with the high unit computed from c, not from c - 0x10000
RECURSIVE widen_from_no_offset(_, _, _, _)
widen_from_no_offset(s, in, out, mode) ==
  IF in = Len(s) THEN [wide |-> out, err |-> "none"]
  ELSE LET r == next_it(s, in, Len(s), mode) IN
    IF r.err /= "none" THEN [wide |-> <<>>, err |-> r.err]
    ELSE IF r.rune < 65536
      THEN widen_from_no_offset(s, r.ptr, Append(out, r.rune), mode)
    ELSE LET c == r.rune - 65536
             sh == (r.rune \div 1024) + 55296
             sl == (c % 1024) + 56320
         IN widen_from_no_offset(s, r.ptr, out \o <<sh, sl>>, mode)

RECURSIVE widen_from(_, _, _, _)
widen_from(s, in, out, mode) ==
  IF in = Len(s) THEN [wide |-> out, err |-> "none"]
  ELSE LET r == next_it(s, in, Len(s), mode) IN
    IF r.err /= "none" THEN [wide |-> <<>>, err |-> r.err]
    ELSE IF r.rune < 65536
      THEN widen_from(s, r.ptr, Append(out, r.rune), mode)
    ELSE LET c == r.rune - 65536
             sh == (c \div 1024) + 55296
             sl == (c % 1024) + 56320
         IN widen_from(s, r.ptr, out \o <<sh, sl>>, mode)

widen_str(s, mode) == widen_from(s, 0, <<>>, mode)

(***************************************************************************)
(* length (const std::string& s) and length (const char* s)                *)
(***************************************************************************)
\* length counting the bytes with (*p++ & 0x80) != 0x80
RECURSIVE length_str_mask_slip(_, _, _)
length_str_mask_slip(s, p, nc) ==
  IF p = Len(s) THEN nc
  ELSE length_str_mask_slip(s, p + 1, IF At(s, p) < 128 THEN nc + 1 ELSE nc)

\* while (p != s.end ()) if ((*p++ & 0xC0) != 0x80) nc++;
RECURSIVE length_str(_, _, _)
length_str(s, p, nc) ==
  IF p = Len(s) THEN nc
  ELSE length_str(s, p + 1, IF ~IsCont(At(s, p)) THEN nc + 1 ELSE nc)

\* while (*s) if ((*s++ & 0xC0) != 0x80) nc++;
RECURSIVE length_ptr(_, _, _)
length_ptr(m, p, nc) ==
  IF At(m, p) = 0 THEN nc
  ELSE length_ptr(m, p + 1, IF ~IsCont(At(m, p)) THEN nc + 1 ELSE nc)


(***************************************************************************)
(* error_mode, strlen and the validity checks.                             *)
(***************************************************************************)
\* error_mode returning the mode it has just set
error_mode_returns_new(cur, mode) == [prev |-> mode, ermode |-> mode]

\* action error_mode (action mode): the value returned and the mode left
error_mode(cur, mode) == [prev |-> cur, ermode |-> mode]

RECURSIVE strlen(_, _)
strlen(m, p) == IF At(m, p) = 0 THEN 0 ELSE 1 + strlen(m, p + 1)

\* is_valid (const char* p) without the two error_mode calls
is_valid_ptr_no_force(m, p, cur) ==
  LET r == next_ptr(m, p, cur) IN
    IF r.err /= "none"
      THEN [valid |-> FALSE, err |-> r.err, ermode |-> cur]
      ELSE [valid |-> r.rune /= REPLACEMENT_CHARACTER, err |-> "none",
            ermode |-> cur]

\* is_valid (const char* p): the answer, the failure thrown if any, and the
\* thread's error mode after the call
is_valid_ptr(m, p, cur) ==
  LET e1 == error_mode(cur, "replace")
      r == next_ptr(m, p, e1.ermode)
  IN IF r.err /= "none"
       THEN [valid |-> FALSE, err |-> r.err, ermode |-> e1.ermode]
       ELSE [valid |-> r.rune /= REPLACEMENT_CHARACTER, err |-> "none",
             ermode |-> error_mode(e1.ermode, e1.prev).ermode]

\* is_valid (std::string::const_iterator p, const_iterator last)
is_valid_it(s, p, last, cur) ==
  LET e1 == error_mode(cur, "replace")
      r == next_it(s, p, last, e1.ermode)
  IN IF r.err /= "none"
       THEN [valid |-> FALSE, err |-> r.err, ermode |-> e1.ermode]
       ELSE [valid |-> r.rune /= REPLACEMENT_CHARACTER, err |-> "none",
             ermode |-> error_mode(e1.ermode, e1.prev).ermode]

(***************************************************************************)
(* The inputs.  A byte buffer is the concatenation of at most MaxUnits     *)
(* fragments: single bytes of every class, the encodings of the boundary   *)
(* code points, and malformed sequences.                                   *)
(***************************************************************************)
Fragments ==
  { <<0>>, <<65>>, <<127>>, <<128>>, <<194>>, <<255>>,
    \* U+0080, U+07FF, U+0800, U+FFFD, U+10000, U+10FFFF
    <<194, 128>>, <<223, 191>>, <<224, 160, 128>>, <<239, 191, 189>>,
    <<240, 144, 128, 128>>, <<244, 143, 191, 191>>,
    \* overlong forms of 'a', U+00B0 and U+20AC
    <<193, 161>>, <<224, 130, 176>>, <<240, 130, 130, 172>>,
    \* encoded surrogates U+D800 and U+DFFF
    <<237, 160, 128>>, <<237, 191, 191>>,
    \* the 4-byte form of 0x110000
    <<244, 144, 128, 128>>,
    \* truncated 3-byte and 4-byte sequences
    <<226, 130>>, <<240, 159, 152>> }

RECURSIVE Concats(_)
Concats(n) ==
  IF n = 0 THEN {<<>>}
  ELSE LET shorter == Concats(n - 1)
       IN shorter \cup {s \o f : s \in shorter, f \in Fragments}

\* the string of TEST (prev_string): three code points of 4 bytes each
Emojis ==
  <<240, 159, 152, 131, 240, 159, 152, 142, 240, 159, 152, 155>>

ByteInputs == Concats(MaxUnits) \cup {Emojis}

\* 32-bit values given to the encoder: boundary code points, surrogates and
\* values above 0x10FFFF
Runes32 ==
  { 0, 65, 127, 128, 2047, 2048, 55295, 55296, 57343, 57344, 65533, 65535,
    65536, 128515, 1114111, 1114112, 2147483647 }

\* 16-bit units given to narrow: plain units and the ends of both
\* surrogate ranges
Units16 == { 65, 55295, 55296, 56319, 56320, 57343, 57344, 65535 }

RECURSIVE SeqsUpTo(_, _)
SeqsUpTo(S, n) ==
  IF n = 0 THEN {<<>>}
  ELSE LET shorter == SeqsUpTo(S, n - 1)
       IN shorter \cup {Append(s, x) : s \in shorter, x \in S}

\* the bytes a pointer-form prev may find in front of the caller's buffer
PreBytes == {65, 128, 226}

\* prev reads at most 4 bytes back from the cursor: with the cursor at
\* offset p >= 4 nothing in front of the buffer is read
PreSeqs(p) == IF p >= 4 THEN {<<65, 65, 65>>} ELSE [1..3 -> PreBytes]

(***************************************************************************)
(* The state.                                                              *)
(***************************************************************************)
VARIABLES
  ermode,   \* ermode[t]: the thread-local error mode of thread t
  input,    \* the caller's data: [kind, data], kind "utf8", "wide" or "u32"
  buf,      \* the caller's UTF-8 string (its c_str() is buf followed by NUL)
  pc,       \* "input": no UTF-8 string yet; "idle": the string is there;
            \* "valid_str": inside the loop of valid_str; "done": the call
            \* on the string returned or threw
  call,     \* the call made last: [op, thr, ptr, nch, mode]
  ret,      \* what it returned, or the failure it threw
  loc,      \* locals of valid_str: [s, last, valid, prev_mode]
  saved,    \* saved[t]: the caller's scoped change of mode, as in
            \*   auto prev_mode = error_mode (req); ... error_mode (prev_mode);
            \* [req, prev_mode, entry, phase]: the mode asked for, the value
            \* error_mode returned, the mode in force when it was called, and
            \* "unset" / "set" / "restored"
  frame,    \* frame[t]: thread t's own activation of valid_str when threads
            \* run side by side: [pc, s, last, valid, prev_mode]
  ini,      \* the INI files on the disk, the IniFile objects, the temporary
            \* file while a writer sits in tmp_rename, the object of that
            \* writer, and what the last reader got:
            \* [disk, obj, tmp, phase, who, got], obj[o] = [alive, filename,
            \* temp_file], who = 0 with no writer in tmp_rename
  wbuf      \* the utf8::buffer objects: wbuf[b] = [ptr, sz]

vars == <<ermode, input, buf, pc, call, ret, loc, saved, frame, ini, wbuf>>

NoRet ==
  [rune |-> NoRune, err |-> "none", ptr |-> 0, bad |-> FALSE, lo |-> 0,
   hi |-> 0, out |-> <<>>, nbad |-> 0, valid |-> FALSE, mode |-> "replace",
   wide |-> <<>>, count |-> 0]

\* a result with the fields a call does not set left at their defaults
Ret(r) == [f \in DOMAIN NoRet |-> IF f \in DOMAIN r THEN r[f] ELSE NoRet[f]]

Call(op, t, ptr, nch) ==
  [op |-> op, thr |-> t, ptr |-> ptr, nch |-> nch, mode |-> ermode[t]]

NoLoc == [s |-> 0, last |-> 0, valid |-> TRUE, prev_mode |-> "replace"]

NoSaved ==
  [req |-> "none", prev_mode |-> "none", entry |-> "none", phase |-> "unset"]

NoFrame ==
  [pc |-> "idle", s |-> 0, last |-> 0, valid |-> TRUE, prev_mode |-> "replace"]

\* no INI file on disk: a value no file has, since fgets returns no empty line
NoFile == << <<>> >>

\* no reader has returned since the last writer
NoGot == <<>>

\* the names of the files the disk can hold: f.ini, other.ini and the
\* temporary file that GetTempFileNameW creates
FileNames == {"f", "other", "temp"}

\* the IniFile objects, and the place of one that is not constructed or has
\* been destroyed
IniFiles == {1, 2}
NoObject == [alive |-> FALSE, filename |-> "", temp_file |-> FALSE]

\* IniFile test (file): the object takes the name, no file is touched
IniFile(file) == [alive |-> TRUE, filename |-> file, temp_file |-> FALSE]

\* an IniFile object on f.ini and a disk that holds no file
NoIni ==
  [disk |-> [n \in FileNames |-> NoFile],
   obj |-> [o \in IniFiles |-> IF o = 1 THEN IniFile("f") ELSE NoObject],
   tmp |-> NoFile, phase |-> "idle", who |-> 0, got |-> NoGot]

\* the utf8::buffer objects, and the state of one that holds nothing:
\* nullptr, size 0
Buffers == {1, 2}
NoBuffer == [ptr |-> <<>>, sz |-> 0]
NoBuffers == [b \in Buffers |-> NoBuffer]

\* c_str() of the caller's string
Mem == buf \o <<0>>

TypeOK ==
  /\ ermode \in [Threads -> Actions]
  /\ input.kind \in {"utf8", "wide", "u32"}
  /\ pc \in {"input", "idle", "done", "valid_str", "prev_string", "runes", "widen",
            "narrow_n", "undefined", "read"}
  /\ \A i \in 1..Len(buf) : buf[i] \in 0..255
  /\ ret.err \in {"none", "invalid_utf8", "invalid_wchar", "invalid_char32",
                 "indeterminate"}

Inputs ==
  {[kind |-> "utf8", data |-> b] : b \in ByteInputs}
    \cup {[kind |-> "wide", data |-> w] : w \in SeqsUpTo(Units16, MaxWide)}
    \cup {[kind |-> "u32", data |-> u] : u \in SeqsUpTo(Runes32, MaxWide)}

\* the program after start-up: every thread's mode is replace unless the
\* calling thread set it (error_mode) before the calls modelled here
Init ==
  /\ \E m \in Actions : ermode = [t \in Threads |-> IF t = 1 THEN m ELSE "replace"]
  /\ input \in Inputs
  /\ buf = IF input.kind = "utf8" THEN input.data ELSE <<>>
  /\ pc = IF input.kind = "utf8" THEN "idle" ELSE "input"
  /\ call = [op |-> "none", thr |-> 1, ptr |-> 0, nch |-> 0, mode |-> "replace"]
  /\ ret = NoRet
  /\ loc = NoLoc
  /\ saved = [t \in Threads |-> NoSaved]
  /\ frame = [t \in Threads |-> NoFrame]
  /\ ini = NoIni
  /\ wbuf = NoBuffers

Ready == pc = "idle"

(***************************************************************************)
(* The calls.                                                              *)
(***************************************************************************)
\* narrow (const std::wstring&)
NarrowWide(t) ==
  /\ pc = "input" /\ input.kind = "wide"
  /\ LET r == narrow_ws(input.data, ermode[t]) IN
       /\ ret' = Ret(r)
       /\ buf' = r.out
       /\ pc' = IF r.err = "none" THEN "idle" ELSE "input"
  /\ call' = Call("narrow_ws", t, 0, 0)
  /\ UNCHANGED <<ermode, input, loc, saved, frame, ini, wbuf>>

\* narrow (const std::u32string&)
NarrowU32(t) ==
  /\ pc = "input" /\ input.kind = "u32"
  /\ LET r == narrow_u32(input.data, ermode[t]) IN
       /\ ret' = Ret(r)
       /\ buf' = r.out
       /\ pc' = IF r.err = "none" THEN "idle" ELSE "input"
  /\ call' = Call("narrow_u32", t, 0, 0)
  /\ UNCHANGED <<ermode, input, loc, saved, frame, ini, wbuf>>

\* encode (*p, str) on the last unit of the 32-bit input, in the loop of
\* narrow, str holding the encoding of the units before it; call.ptr is the
\* size of str before the call and ret.out is str after it
Encode(t) ==
  /\ pc = "input" /\ input.kind = "u32" /\ Len(input.data) >= 1
  /\ LET n == Len(input.data)
         str == narrow_u32(SubSeq(input.data, 1, n - 1), ermode[t])
         e == encode(input.data[n], str.out, ermode[t])
     IN /\ str.err = "none"
        /\ call' = Call("encode", t, Len(str.out), 0)
        /\ ret' = Ret([out |-> e.out, err |-> e.err])
  /\ pc' = "done"
  /\ UNCHANGED <<ermode, input, buf, loc, saved, frame, ini, wbuf>>

\* a call that leaves the string and the error mode alone
Decode(t, op, ptr, r) ==
  /\ Ready
  /\ call' = Call(op, t, ptr, 0)
  /\ ret' = Ret(r)
  /\ pc' = "done"
  /\ UNCHANGED <<ermode, input, buf, loc, saved, frame, ini, wbuf>>

\* next (ptr, s.end ()) with ptr = s.begin () + p
Next_it(t) ==
  \E p \in 0..Len(buf) :
    Decode(t, "next_it", p, next_it(buf, p, Len(buf), ermode[t]))

\* next (ptr) with ptr = s.c_str () + p
Next_ptr(t) ==
  \E p \in 0..Len(buf) :
    Decode(t, "next_ptr", p, next_ptr(Mem, p, ermode[t]))

\* prev (ptr, s.begin ()) with ptr = s.begin () + p
Prev_it(t) ==
  \E p \in 1..Len(buf) :
    Decode(t, "prev_it", p, prev_it(buf, p, 0, ermode[t]))

\* prev (ptr) with ptr = s.c_str () + p; what lies before the string is
\* whatever the caller's memory holds there
Prev_ptr(t) ==
  \E p \in 1..Len(buf) : \E pre \in PreSeqs(p) :
    Decode(t, "prev_ptr", p, prev_ptr(Mem, pre, p, ermode[t]))

\* runes (s)
Runes(t) == Decode(t, "runes", 0, runes_str(buf, ermode[t]))

\* widen (s)
Widen(t) == Decode(t, "widen", 0, widen_str(buf, ermode[t]))

\* narrow (ws) on the units widen returned; ret keeps them in ret.wide
NarrowBack(t) ==
  /\ pc = "done" /\ call.op = "widen" /\ call.thr = t /\ ret.err = "none"
  /\ LET r == narrow_ws(ret.wide, ermode[t]) IN
       ret' = Ret([out |-> r.out, err |-> r.err, wide |-> ret.wide])
  /\ call' = Call("narrow_back", t, 0, 0)
  /\ UNCHANGED <<ermode, input, buf, pc, loc, saved, frame, ini, wbuf>>

\* length (s) and length (s.c_str ())
Length(t) ==
  \E form \in {"length_str", "length_ptr"} :
    Decode(t, form, 0,
           [count |-> IF form = "length_str" THEN length_str(buf, 0, 0)
                                            ELSE length_ptr(Mem, 0, 0)])

\* the loop of TEST (next_ptr) from s.c_str ()
NextLoop(t) == Decode(t, "next_loop", 0, next_loop(Mem, 0, 0, ermode[t]))

\* the backward loop of TEST (prev_string), one iteration at a time; ret.ptr
\* is the cursor, ret.out is runes, ret.nbad counts the failed calls of prev
\* auto ptr = emojis.end ();
PrevStringBegin(t) ==
  /\ Ready
  /\ call' = Call("prev_string", t, Len(buf), 0)
  /\ ret' = Ret([ptr |-> Len(buf)])
  /\ pc' = "prev_string"
  /\ UNCHANGED <<ermode, input, buf, loc, saved, frame, ini, wbuf>>

\* while (ptr > begin) { runes.insert (runes.begin (), prev (ptr, begin)); count++; }
PrevStringStep(t) ==
  /\ pc = "prev_string" /\ call.thr = t
  /\ ret.ptr > 0
  /\ Len(ret.out) < MaxOut
  /\ LET r == prev_it(buf, ret.ptr, 0, ermode[t]) IN
       IF r.err /= "none"
         THEN /\ ret' = [ret EXCEPT !.err = r.err, !.ptr = r.ptr, !.nbad = @ + 1]
              /\ pc' = "done"
         ELSE /\ ret' = [ret EXCEPT !.out = <<r.rune>> \o @, !.ptr = r.ptr,
                                    !.count = @ + 1,
                                    !.nbad = IF r.bad THEN @ + 1 ELSE @]
              /\ pc' = pc
  /\ UNCHANGED <<ermode, input, buf, call, loc, saved, frame, ini, wbuf>>

\* the loop is left: CHECK_EQUAL (3, count);
PrevStringEnd(t) ==
  /\ pc = "prev_string" /\ call.thr = t
  /\ ~(ret.ptr > 0)
  /\ pc' = "done"
  /\ UNCHANGED <<ermode, input, buf, call, ret, loc, saved, frame, ini, wbuf>>

\* is_valid (s.c_str () + p) and is_valid (s.begin () + p, s.end ())
IsValid(t) ==
  /\ Ready
  /\ \E p \in 0..Len(buf) : \E form \in {"is_valid_ptr", "is_valid_it"} :
       LET r == IF form = "is_valid_ptr"
                  THEN is_valid_ptr(Mem, p, ermode[t])
                  ELSE is_valid_it(buf, p, Len(buf), ermode[t])
       IN /\ call' = Call(form, t, p, 0)
          /\ ret' = Ret([valid |-> r.valid, err |-> r.err])
          /\ ermode' = [ermode EXCEPT ![t] = r.ermode]
  /\ pc' = "done"
  /\ UNCHANGED <<input, buf, loc, saved, frame, ini, wbuf>>

(***************************************************************************)
(* valid_str (const char* s, size_t nch), one action per step of its loop. *)
(* valid_str (const std::string&) is the call with nch = s.size ().        *)
(***************************************************************************)
ValidStrBegin(t) ==
  /\ Ready
  /\ \E nch \in 0..Len(buf) :
       LET n == IF nch = 0 THEN strlen(Mem, 0) ELSE nch
           e == error_mode(ermode[t], "replace")
       IN /\ call' = Call("valid_str", t, 0, nch)
          /\ loc' = [s |-> 0, last |-> n, valid |-> TRUE, prev_mode |-> e.prev]
          /\ ermode' = [ermode EXCEPT ![t] = e.ermode]
  /\ ret' = NoRet
  /\ pc' = "valid_str"
  /\ UNCHANGED <<input, buf, saved, frame, ini, wbuf>>

\* while (s < last && valid) valid = (next (s) != REPLACEMENT_CHARACTER);
ValidStrStep(t) ==
  /\ pc = "valid_str" /\ call.thr = t
  /\ loc.s < loc.last /\ loc.valid
  /\ LET r == next_ptr(Mem, loc.s, ermode[t]) IN
       IF r.err /= "none"
         THEN /\ ret' = Ret([err |-> r.err])
              /\ pc' = "done"
              /\ loc' = [loc EXCEPT !.s = r.ptr]
         ELSE /\ loc' = [loc EXCEPT !.s = r.ptr,
                                    !.valid = (r.rune /= REPLACEMENT_CHARACTER)]
              /\ UNCHANGED <<ret, pc>>
  /\ UNCHANGED <<ermode, input, buf, call, saved, frame, ini, wbuf>>

\* error_mode (prev_mode); return (s == last);
ValidStrEnd(t) ==
  /\ pc = "valid_str" /\ call.thr = t
  /\ ~(loc.s < loc.last /\ loc.valid)
  /\ ermode' = [ermode EXCEPT ![t] = error_mode(ermode[t], loc.prev_mode).ermode]
  /\ ret' = Ret([valid |-> (loc.s = loc.last)])
  /\ pc' = "done"
  /\ UNCHANGED <<input, buf, call, loc, saved, frame, ini, wbuf>>

Next ==
  \E t \in {1} :
    \/ NarrowWide(t)
    \/ NarrowU32(t)
    \/ Encode(t)
    \/ Next_it(t)
    \/ Next_ptr(t)
    \/ Prev_it(t)
    \/ Prev_ptr(t)
    \/ Runes(t)
    \/ Widen(t)
    \/ NarrowBack(t)
    \/ Length(t)
    \/ NextLoop(t)
    \/ PrevStringBegin(t)
    \/ PrevStringStep(t)
    \/ PrevStringEnd(t)
    \/ IsValid(t)
    \/ ValidStrBegin(t)
    \/ ValidStrStep(t)
    \/ ValidStrEnd(t)

Spec == Init /\ [][Next]_vars

(***************************************************************************)
(* The error mode over time: threads change their mode, decode, and put    *)
(* the mode back, in any order.                                            *)
(***************************************************************************)
PolicyInit ==
  /\ ermode = [t \in Threads |-> "replace"]
  /\ input \in {[kind |-> "utf8", data |-> f] : f \in Fragments}
  /\ buf = input.data
  /\ pc = "idle"
  /\ call = [op |-> "none", thr |-> 1, ptr |-> 0, nch |-> 0, mode |-> "replace"]
  /\ ret = NoRet
  /\ loc = NoLoc
  /\ saved = [t \in Threads |-> NoSaved]
  /\ frame = [t \in Threads |-> NoFrame]
  /\ ini = NoIni
  /\ wbuf = NoBuffers

\* auto prev_mode = error_mode (mode);
ErrorMode(t) ==
  /\ pc \in {"idle", "done"}
  /\ \E mode \in Actions :
       LET e == error_mode(ermode[t], mode) IN
         /\ ermode' = [ermode EXCEPT ![t] = e.ermode]
         /\ ret' = Ret([mode |-> e.prev])
         /\ saved' = [saved EXCEPT ![t] = [req |-> mode, prev_mode |-> e.prev,
                                          entry |-> ermode[t], phase |-> "set"]]
  /\ call' = Call("error_mode", t, 0, 0)
  /\ pc' = "done"
  /\ UNCHANGED <<input, buf, loc, frame, ini, wbuf>>

\* error_mode (prev_mode);
ErrorModeRestore(t) ==
  /\ pc \in {"idle", "done"}
  /\ saved[t].phase = "set"
  /\ LET e == error_mode(ermode[t], saved[t].prev_mode) IN
       /\ ermode' = [ermode EXCEPT ![t] = e.ermode]
       /\ ret' = Ret([mode |-> e.prev])
  /\ saved' = [saved EXCEPT ![t].phase = "restored"]
  /\ call' = Call("restore", t, 0, 0)
  /\ pc' = "done"
  /\ UNCHANGED <<input, buf, loc, frame, ini, wbuf>>

\* next (ptr, s.end ()) or next (ptr), by any thread, any number of times
DecodeAny(t) ==
  /\ pc \in {"idle", "done"}
  /\ \E p \in 0..Len(buf) : \E form \in {"next_it", "next_ptr"} :
       /\ call' = Call(form, t, p, 0)
       /\ ret' = Ret(IF form = "next_it"
                       THEN next_it(buf, p, Len(buf), ermode[t])
                       ELSE next_ptr(Mem, p, ermode[t]))
  /\ pc' = "done"
  /\ UNCHANGED <<ermode, input, buf, loc, saved, frame, ini, wbuf>>

PolicyNext ==
  \E t \in Threads :
    \/ ErrorMode(t)
    \/ ErrorModeRestore(t)
    \/ DecodeAny(t)

PolicySpec == PolicyInit /\ [][PolicyNext]_vars

(***************************************************************************)
(* Threads side by side.  ermode is declared thread_local: the instance a  *)
(* thread reads and writes is its own.  Each thread changes its mode,      *)
(* converts the shared (read-only) input and runs valid_str, whose loop is *)
(* interleaved step by step with the other thread's calls.                 *)
(***************************************************************************)
\* ermode declared without thread_local: one instance for all threads
ermode_shared(t) == 1

\* the instance of ermode that thread t uses
ermode_tls(t) == t

\* the mode in force for thread t
ModeOf(t) == ermode[ermode_tls(t)]

\* the mode thread t itself asked for last, replace if it never called
\* error_mode
Own(t) == IF saved[t].phase = "unset" THEN "replace" ELSE saved[t].req

ThreadCall(op, t, ptr) ==
  [op |-> op, thr |-> t, ptr |-> ptr, nch |-> 0, mode |-> ModeOf(t)]

ThreadInputs ==
  {[kind |-> "utf8", data |-> f] : f \in Fragments}
    \cup {[kind |-> "wide", data |-> <<u>>] : u \in Units16}
    \cup {[kind |-> "u32", data |-> <<c>>] : c \in Runes32}

ThreadInit ==
  /\ ermode = [t \in Threads |-> "replace"]
  /\ input \in ThreadInputs
  /\ buf = IF input.kind = "utf8" THEN input.data ELSE <<>>
  /\ pc = "idle"
  /\ call = [op |-> "none", thr |-> 1, ptr |-> 0, nch |-> 0, mode |-> "replace"]
  /\ ret = NoRet
  /\ loc = NoLoc
  /\ saved = [t \in Threads |-> NoSaved]
  /\ frame = [t \in Threads |-> NoFrame]
  /\ ini = NoIni
  /\ wbuf = NoBuffers

\* error_mode (mode) by thread t; saved[t].entry is the mode the thread had
\* asked for before
T_ErrorMode(t) ==
  /\ frame[t].pc = "idle"
  /\ \E mode \in Actions :
       LET e == error_mode(ModeOf(t), mode) IN
         /\ ermode' = [ermode EXCEPT ![ermode_tls(t)] = e.ermode]
         /\ ret' = Ret([mode |-> e.prev])
         /\ saved' = [saved EXCEPT ![t] = [req |-> mode, prev_mode |-> e.prev,
                                          entry |-> Own(t), phase |-> "set"]]
  /\ call' = ThreadCall("error_mode", t, 0)
  /\ UNCHANGED <<input, buf, pc, loc, frame, ini, wbuf>>

\* next on the string, in either form, by thread t
T_Next(t) ==
  /\ frame[t].pc = "idle" /\ input.kind = "utf8"
  /\ \E p \in 0..Len(buf) : \E form \in {"next_it", "next_ptr"} :
       /\ call' = ThreadCall(form, t, p)
       /\ ret' = Ret(IF form = "next_it"
                       THEN next_it(buf, p, Len(buf), ModeOf(t))
                       ELSE next_ptr(Mem, p, ModeOf(t)))
  /\ UNCHANGED <<ermode, input, buf, pc, loc, saved, frame, ini, wbuf>>

\* narrow on the 16-bit or 32-bit input by thread t
T_Narrow(t) ==
  /\ frame[t].pc = "idle" /\ input.kind \in {"wide", "u32"}
  /\ call' = ThreadCall(IF input.kind = "wide" THEN "narrow_ws" ELSE "narrow_u32",
                        t, 0)
  /\ ret' = Ret(IF input.kind = "wide" THEN narrow_ws(input.data, ModeOf(t))
                                       ELSE narrow_u32(input.data, ModeOf(t)))
  /\ UNCHANGED <<ermode, input, buf, pc, loc, saved, frame, ini, wbuf>>

\* valid_str (s) by thread t: auto prev_mode = error_mode (action::replace);
T_ValidStrBegin(t) ==
  /\ frame[t].pc = "idle" /\ input.kind = "utf8"
  /\ LET n == IF Len(buf) = 0 THEN strlen(Mem, 0) ELSE Len(buf)
         e == error_mode(ModeOf(t), "replace")
     IN /\ frame' = [frame EXCEPT ![t] = [pc |-> "valid_str", s |-> 0,
                                          last |-> n, valid |-> TRUE,
                                          prev_mode |-> e.prev]]
        /\ ermode' = [ermode EXCEPT ![ermode_tls(t)] = e.ermode]
  /\ call' = ThreadCall("valid_str_begin", t, 0)
  /\ ret' = NoRet
  /\ UNCHANGED <<input, buf, pc, loc, saved, ini, wbuf>>

\* one iteration of the loop of valid_str on thread t; a failure thrown by
\* next leaves valid_str at once
T_ValidStrStep(t) ==
  /\ frame[t].pc = "valid_str"
  /\ frame[t].s < frame[t].last /\ frame[t].valid
  /\ LET r == next_ptr(Mem, frame[t].s, ModeOf(t)) IN
       /\ ret' = Ret(r)
       /\ frame' = [frame EXCEPT
                      ![t].s = r.ptr,
                      ![t].valid = (r.err = "none"
                                      /\ r.rune /= REPLACEMENT_CHARACTER),
                      ![t].pc = IF r.err = "none" THEN "valid_str" ELSE "idle"]
  /\ call' = ThreadCall("valid_str_step", t, frame[t].s)
  /\ UNCHANGED <<ermode, input, buf, pc, loc, saved, ini, wbuf>>

\* error_mode (prev_mode); return (s == last);
T_ValidStrEnd(t) ==
  /\ frame[t].pc = "valid_str"
  /\ ~(frame[t].s < frame[t].last /\ frame[t].valid)
  /\ ermode' = [ermode EXCEPT ![ermode_tls(t)] =
                  error_mode(ModeOf(t), frame[t].prev_mode).ermode]
  /\ ret' = Ret([valid |-> (frame[t].s = frame[t].last)])
  /\ frame' = [frame EXCEPT ![t].pc = "idle"]
  /\ call' = ThreadCall("valid_str", t, frame[t].s)
  /\ UNCHANGED <<input, buf, pc, loc, saved, ini, wbuf>>

ThreadNext ==
  \E t \in Threads :
    \/ T_ErrorMode(t)
    \/ T_Next(t)
    \/ T_Narrow(t)
    \/ T_ValidStrBegin(t)
    \/ T_ValidStrStep(t)
    \/ T_ValidStrEnd(t)

ThreadSpec == ThreadInit /\ [][ThreadNext]_vars

(***************************************************************************)
(* Character classification.  The const char* forms classify rune (p),     *)
(* that is next (p); islower and isupper hand a byte up to 0x7f to the C   *)
(* functions of the same name.                                             *)
(***************************************************************************)
\* std::lower_bound on a sorted table: the index of the first element that
\* is not less than r, Len(tab) + 1 if there is none
lower_bound(tab, r) ==
  IF \E i \in 1..Len(tab) : tab[i] >= r
    THEN CHOOSE i \in 1..Len(tab) :
           tab[i] >= r /\ \A j \in 1..(i - 1) : tab[j] < r
    ELSE Len(tab) + 1

\* f != end (tab) && *f == r
found(tab, r) ==
  LET f == lower_bound(tab, r) IN f /= Len(tab) + 1 /\ tab[f] = r

blanktab ==
  <<9, 32, 160, 5760, 8192, 8193, 8194, 8195, 8196, 8197, 8198, 8199, 8200,
    8201, 8202, 8239, 8287, 12288>>

spacetab ==
  <<9, 10, 11, 12, 13, 32, 133, 160, 5760, 8192, 8193, 8194, 8195, 8196,
    8197, 8198, 8199, 8200, 8201, 8202, 8232, 8233, 8239, 8287, 12288>>

\* isblank with a table that starts at 0x20
isblank_no_tab(r) == found(SubSeq(blanktab, 2, Len(blanktab)), r)

isblank(r) == found(blanktab, r)

isspace(r) == found(spacetab, r)

isdigit(r) == 48 <= r /\ r <= 57

isalnum(r) ==
  (48 <= r /\ r <= 57) \/ (65 <= r /\ r <= 90) \/ (97 <= r /\ r <= 122)

isalpha(r) == (65 <= r /\ r <= 90) \/ (97 <= r /\ r <= 122)

isxdigit(r) ==
  (48 <= r /\ r <= 57) \/ (65 <= r /\ r <= 70) \/ (97 <= r /\ r <= 102)

\* isupper (const char* p) and islower (const char* p) for a first byte up
\* to 0x7f: ::isupper (*p) and ::islower (*p), in the "C" locale
isupper_ascii(b) == 65 <= b /\ b <= 90
islower_ascii(b) == 97 <= b /\ b <= 122

\* rune (const char* p): next on a copy of the pointer
rune(m, p, mode) == next_ptr(m, p, mode).rune

AsciiBytes == 0..127

\* char temp[2] = { c, 0 } for every c of the 7-bit range
ClassInit ==
  /\ \E m \in Actions : ermode = [t \in Threads |-> IF t = 1 THEN m ELSE "replace"]
  /\ input \in {[kind |-> "utf8", data |-> <<c>>] : c \in AsciiBytes}
  /\ buf = input.data
  /\ pc = "idle"
  /\ call = [op |-> "none", thr |-> 1, ptr |-> 0, nch |-> 0, mode |-> "replace"]
  /\ ret = NoRet
  /\ loc = NoLoc
  /\ saved = [t \in Threads |-> NoSaved]
  /\ frame = [t \in Threads |-> NoFrame]
  /\ ini = NoIni
  /\ wbuf = NoBuffers

\* a classification call on temp: the answer is ret.valid
Classify(t, op, answer) ==
  /\ pc \in {"idle", "done"}
  /\ call' = Call(op, t, 0, 0)
  /\ ret' = Ret([valid |-> answer])
  /\ pc' = "done"
  /\ UNCHANGED <<ermode, input, buf, loc, saved, frame, ini, wbuf>>

IsSpace(t) == Classify(t, "isspace", isspace(rune(Mem, 0, ermode[t])))
IsBlank(t) == Classify(t, "isblank", isblank(rune(Mem, 0, ermode[t])))
IsDigit(t) == Classify(t, "isdigit", isdigit(rune(Mem, 0, ermode[t])))
IsAlnum(t) == Classify(t, "isalnum", isalnum(rune(Mem, 0, ermode[t])))
IsAlpha(t) == Classify(t, "isalpha", isalpha(rune(Mem, 0, ermode[t])))
IsXdigit(t) == Classify(t, "isxdigit", isxdigit(rune(Mem, 0, ermode[t])))
IsUpper(t) == Classify(t, "isupper", isupper_ascii(At(Mem, 0)))
IsLower(t) == Classify(t, "islower", islower_ascii(At(Mem, 0)))

ClassNext ==
  \E t \in {1} :
    \/ IsSpace(t)
    \/ IsBlank(t)
    \/ IsDigit(t)
    \/ IsAlnum(t)
    \/ IsAlpha(t)
    \/ IsXdigit(t)
    \/ IsUpper(t)
    \/ IsLower(t)

ClassSpec == ClassInit /\ [][ClassNext]_vars

\* ---------------------------------------------------------------------------
\* INI files (ini.cpp). A file is a sequence of lines as fgets returns them;
\* a line and a name are sequences of characters.

\* the three bytes of the byte order mark, written as one character
BOM == "BOM"

\* a NULL value pointer: the request is to erase the key
NULL == "NULL"

\* *str > 0 && *str <= ' ' (skipleading), the negation of c > ' ' (skiptrailing)
IsCtlOrSpace(c) == c \in {" ", "\t", "\r", "\n"}

RECURSIVE skipleading(_)
skipleading(str) ==
  IF str # <<>> /\ IsCtlOrSpace(str[1]) THEN skipleading(Tail(str)) ELSE str

\* the offset of the first trailing space character
skiptrailing(str) ==
  LET solid == {i \in 1..Len(str) : ~IsCtlOrSpace(str[i])}
  IN  IF solid = {} THEN 0 ELSE CHOOSE i \in solid : \A j \in solid : j <= i

trimmed_len(str) == skiptrailing(str)

trimtrailing(str) == SubSeq(str, 1, skiptrailing(str))

tolower(c) ==
  CASE c = "K" -> "k"
    [] c = "J" -> "j"
    [] c = "S" -> "s"
    [] OTHER -> c

\* 0 when the first n characters agree without regard to case (a string that
\* ends before n characters agrees only with one that ends there too)
RECURSIVE strnicmp(_, _, _)
strnicmp(a, b, n) ==
  IF n = 0 THEN 0
  ELSE IF a = <<>> /\ b = <<>> THEN 0
  ELSE IF a = <<>> \/ b = <<>> THEN 1
  ELSE IF tolower(a[1]) # tolower(b[1]) THEN 1
  ELSE strnicmp(Tail(a), Tail(b), n - 1)

strchr(str, c) == \E i \in 1..Len(str) : str[i] = c

\* the text after the first occurrence of c
AfterFirst(str, c) ==
  LET i == CHOOSE k \in 1..Len(str) : str[k] = c /\ \A j \in 1..(k - 1) : str[j] # c
  IN  SubSeq(str, i + 1, Len(str))

\* findsection reading from line i: the index of the section line, or
\* Len(rf) + 1 at end of file; the lines before it are those copied to wf
RECURSIVE findsection_from(_, _, _)
findsection_from(section, rf, i) ==
  IF i > Len(rf) THEN [found |-> FALSE, at |-> i]
  ELSE LET buffer == rf[i]
           sp == skipleading(buffer)
           name == skipleading(section)
           len == trimmed_len(name)
       IN  IF /\ sp # <<>> /\ sp[1] = "[" /\ strchr(buffer, "]")
              /\ strnicmp(skipleading(Tail(sp)), name, len) = 0
           THEN [found |-> TRUE, at |-> i]
           ELSE findsection_from(section, rf, i + 1)

findsection(section, rf) == findsection_from(section, rf, 1)

\* the do-while loop of getkey reading from line i
RECURSIVE getkey_from(_, _, _)
getkey_from(fp, key, i) ==
  IF i > Len(fp) THEN [found |-> FALSE, val |-> <<>>]
  ELSE LET buffer == fp[i]
           sp == skipleading(buffer)
           name == skipleading(key)
           len == trimmed_len(name)
       IN  IF sp # <<>> /\ sp[1] = "[" THEN [found |-> FALSE, val |-> <<>>]
           ELSE IF (sp # <<>> /\ sp[1] = ";") \/ ~strchr(buffer, "=")
             THEN getkey_from(fp, key, i + 1)
           ELSE IF strnicmp(sp, name, len) = 0
             THEN [found |-> TRUE,
                   val |-> trimtrailing(skipleading(AfterFirst(buffer, "=")))]
           ELSE getkey_from(fp, key, i + 1)

getkey(fp, section, key) ==
  LET fs == findsection(section, fp)
  IN  IF ~fs.found THEN [found |-> FALSE, val |-> <<>>]
      ELSE getkey_from(fp, key, fs.at + 1)

\* the lines writesection puts out
writesection(section) ==
  LET name == skipleading(section)
  IN  IF Len(name) > 0 THEN << <<"[">> \o trimtrailing(name) \o <<"]", "\r", "\n">> >>
      ELSE <<>>

\* the line writekey puts out
writekey(key, value) ==
  trimtrailing(skipleading(key)) \o <<"=">> \o trimtrailing(skipleading(value))
    \o <<"\r", "\n">>

\* the key search of putkey from line i: the index of the line it stops at
RECURSIVE putkey_scan(_, _, _)
putkey_scan(rfp, key, i) ==
  IF i > Len(rfp) THEN i
  ELSE LET buffer == rfp[i]
           sp == skipleading(buffer)
           name == skipleading(key)
           len == trimmed_len(name)
       IN  IF /\ ~(sp # <<>> /\ sp[1] = "[")
              /\ (~strchr(buffer, "=") \/ strnicmp(name, sp, len) # 0)
           THEN putkey_scan(rfp, key, i + 1)
           ELSE i

\* the section line as putkey writes it back
terminated(buffer) ==
  IF buffer[Len(buffer)] # "\n"
  THEN SubSeq(buffer, 1, Len(buffer) - 1) \o <<"\n">>
  ELSE buffer

\* the lines putkey and CopySection pass over in a section: from line i, the
\* index of the first line that opens a section, or one past the last line
RECURSIVE section_end(_, _)
section_end(rfp, i) ==
  IF i > Len(rfp) THEN i
  ELSE LET sp == skipleading(rfp[i])
       IN  IF sp # <<>> /\ sp[1] = "[" THEN i ELSE section_end(rfp, i + 1)

\* what a writer leaves behind: the lines written, and whether they were
\* written to the temporary file that tmp_rename then moves over the file
Written(f) == [file |-> f, rewritten |-> FALSE]
Rewritten(f) == [file |-> f, rewritten |-> TRUE]

\* putkey: a NULL value erases the key, a NULL key erases the section
putkey(key, value, section, f) ==
  IF f = NoFile
  THEN IF key # NULL /\ value # NULL
       THEN Written(<< <<BOM, "\r", "\n">> >> \o writesection(section)
                      \o <<writekey(key, value)>>)
       ELSE Written(NoFile)
  ELSE LET bail == IF key # NULL /\ value # NULL
                   THEN LET got == getkey(f, section, key)
                        IN  got.found /\ got.val = value
                   ELSE FALSE
           fs == findsection(section, f)
       IN  IF bail THEN Written(f)
           ELSE IF fs.found
             THEN LET j == IF key # NULL THEN putkey_scan(f, key, fs.at + 1)
                           ELSE section_end(f, fs.at + 1)
                      sp == IF j <= Len(f) THEN skipleading(f[j]) ELSE <<>>
                  IN  Rewritten(
                        SubSeq(f, 1, fs.at - 1)
                        \o (IF key # NULL
                            THEN <<terminated(f[fs.at])>>
                                   \o SubSeq(f, fs.at + 1, j - 1)
                                   \o (IF value # NULL THEN <<writekey(key, value)>>
                                       ELSE <<>>)
                            ELSE <<>>)
                        \o (IF sp # <<>> /\ sp[1] = "[" THEN <<f[j]>> ELSE <<>>)
                        \o SubSeq(f, j + 1, Len(f)))
           ELSE IF key # NULL /\ value # NULL
             THEN Rewritten(f \o << <<"\n">> >> \o writesection(section)
                              \o <<writekey(key, value)>>)
           ELSE Written(f)

\* CopySection: from is the content of from_file, same tells whether from_file
\* names the file of this object
CopySectionFile(from, same, from_sect, to_sect, f) ==
  IF same /\ (to_sect = <<>> \/ from_sect = to_sect) THEN Written(f)
  ELSE IF from = NoFile THEN Written(f)
  ELSE
    LET dest_sect == IF to_sect = <<>> THEN from_sect ELSE to_sect
        ff == findsection(from_sect, from)
        body == SubSeq(from, ff.at + 1, section_end(from, ff.at + 1) - 1)
    IN  IF ~ff.found THEN Written(f)
        ELSE IF f = NoFile
          THEN Written(<< <<BOM, "\r", "\n">> >> \o writesection(dest_sect) \o body)
        ELSE LET ft == findsection(dest_sect, f)
                 j == section_end(f, ft.at + 1)
             IN  Rewritten(
                   SubSeq(f, 1, ft.at - 1) \o writesection(dest_sect) \o body
                   \o (IF j <= Len(f) THEN << <<"\n">>, f[j] >> ELSE <<>>)
                   \o SubSeq(f, j + 1, Len(f)))

GetString(f, key, section, defval) ==
  LET got == IF f = NoFile THEN [found |-> FALSE, val |-> <<>>]
             ELSE getkey(f, section, key)
  IN  IF got.found THEN got.val ELSE defval

\* _itoa_s in base 10 and atoi
Digits == <<"0", "1", "2", "3", "4", "5", "6", "7", "8", "9">>
IsDigitChar(c) == \E d \in 1..10 : Digits[d] = c
DigitValue(c) == (CHOOSE d \in 1..10 : Digits[d] = c) - 1

RECURSIVE itoa_digits(_)
itoa_digits(n) ==
  IF n < 10 THEN <<Digits[n + 1]>>
  ELSE itoa_digits(n \div 10) \o <<Digits[(n % 10) + 1]>>

itoa(value) ==
  IF value < 0 THEN <<"-">> \o itoa_digits(-value) ELSE itoa_digits(value)

RECURSIVE atoi_digits(_, _)
atoi_digits(str, acc) ==
  IF str # <<>> /\ IsDigitChar(str[1])
  THEN atoi_digits(Tail(str), acc * 10 + DigitValue(str[1]))
  ELSE acc

RECURSIVE atoi(_)
atoi(str) ==
  IF str = <<>> THEN 0
  ELSE IF str[1] \in {" ", "\t", "\r", "\n"} THEN atoi(Tail(str))
  ELSE IF str[1] = "-" THEN -atoi_digits(Tail(str), 0)
  ELSE IF str[1] = "+" THEN atoi_digits(Tail(str), 0)
  ELSE atoi_digits(str, 0)

\* GetInt: the key's text through atoi, defval when the text read is empty
GetInt(f, key, section, defval) ==
  LET buffer == GetString(f, key, section, <<>>)
  IN  IF Len(buffer) # 0 THEN atoi(buffer) ELSE defval

\* the lines the files on the disk hold together, at most
MaxLines == 6

\* key, section and value names in use; "k" is a prefix of "k2", "s" of "s2"
Keys == {<<"k">>, <<"k", "2">>}
Sections == {<<"s">>, <<"s", "2">>}
Values == {<<"x">>}
IntValues == {-10}
Default == <<"d">>
DefaultInt == 7

\* what other.ini holds when the program starts
OtherFile ==
  << <<BOM, "\r", "\n">>,
     <<"[", "s", "2", "]", "\r", "\n">>,
     <<"j", "=", "y", "\r", "\n">> >>

\* the file of a name; a name the disk does not know has no file
FileOf(disk, name) == IF name \in DOMAIN disk THEN disk[name] ELSE NoFile

\* the disk with file f under the name
SetFile(disk, name, f) ==
  [n \in DOMAIN disk \cup {name} |-> IF n = name THEN f ELSE disk[n]]

\* the file object o is on
ThisFile(o) == FileOf(ini.disk, ini.obj[o].filename)

\* same_file (f1, f2): two files that do not exist are the same file
same_file(disk, f1, f2) ==
  IF FileOf(disk, f1) = NoFile THEN FileOf(disk, f2) = NoFile
  ELSE IF FileOf(disk, f2) = NoFile THEN FALSE
  ELSE f1 = f2

\* IniFile test ("f.ini") with no f.ini on the disk, and other.ini beside it
IniInit ==
  /\ ermode = [t \in Threads |-> "replace"]
  /\ input = [kind |-> "utf8", data |-> <<>>]
  /\ buf = <<>>
  /\ pc = "idle"
  /\ call = [op |-> "none", thr |-> 1, ptr |-> 0, nch |-> 0, mode |-> "replace"]
  /\ ret = NoRet
  /\ loc = NoLoc
  /\ saved = [t \in Threads |-> NoSaved]
  /\ frame = [t \in Threads |-> NoFrame]
  /\ ini = [NoIni EXCEPT !.disk["other"] = OtherFile]
  /\ wbuf = NoBuffers

Lines(f) == IF f = NoFile THEN 0 ELSE Len(f)

\* the lines the disk holds, those of the temporary file tmp included
DiskLines(disk, tmp) ==
  Lines(disk["f"]) + Lines(disk["other"]) + Lines(disk["temp"]) + Lines(tmp)

\* a writer of object o up to the point where tmp_rename has removed the
\* file and yields (Sleep (0)) before renaming the temporary file; a writer
\* that does not go through tmp_rename is complete. A disk of more than
\* MaxLines lines is not followed.
IniWrite(o, w) ==
  /\ ini.phase = "idle"
  /\ ini.obj[o].alive
  /\ LET disk == SetFile(ini.disk, ini.obj[o].filename,
                         IF w.rewritten THEN NoFile ELSE w.file)
         tmp == IF w.rewritten THEN w.file ELSE NoFile
     IN  /\ DiskLines(disk, tmp) <= MaxLines
         /\ ini' = [ini EXCEPT !.disk = disk, !.tmp = tmp,
                               !.phase = IF w.rewritten THEN "rename" ELSE "idle",
                               !.who = IF w.rewritten THEN o ELSE 0,
                               !.got = NoGot]
  /\ UNCHANGED <<ermode, input, buf, pc, call, ret, loc, saved, frame, wbuf>>

\* the second half of tmp_rename: the temporary file takes the file's name
TmpRename ==
  /\ ini.phase = "rename"
  /\ ini' = [ini EXCEPT !.disk = SetFile(ini.disk, ini.obj[ini.who].filename, ini.tmp),
                        !.tmp = NoFile, !.phase = "idle", !.who = 0]
  /\ UNCHANGED <<ermode, input, buf, pc, call, ret, loc, saved, frame, wbuf>>

PutString(o, key, value, section) ==
  IniWrite(o, putkey(key, value, section, ThisFile(o)))

PutInt(o, key, value, section) ==
  IniWrite(o, putkey(key, itoa(value), section, ThisFile(o)))

DeleteKey(o, key, section) ==
  IniWrite(o, putkey(key, NULL, section, ThisFile(o)))

DeleteSection(o, section) ==
  IniWrite(o, putkey(NULL, NULL, section, ThisFile(o)))

\* from_file is the name of the file the IniFile object from_file is on
CopySection(o, from_file, from_sect, to_sect) ==
  IniWrite(o, CopySectionFile(FileOf(ini.disk, from_file),
                              same_file(ini.disk, ini.obj[o].filename, from_file),
                              from_sect, to_sect, ThisFile(o)))

\* operator= : CopyFile from the file of p onto the file of this object; the
\* copy fails, leaving the file alone, when the source is missing or is the
\* file of this object
IniAssign(o, p) ==
  IniWrite(o, Written(IF FileOf(ini.disk, p) = NoFile \/ p = ini.obj[o].filename
                      THEN ThisFile(o) ELSE FileOf(ini.disk, p)))

\* the disk once object o has let go of its file: a temporary file is removed
Released(o) ==
  IF ini.obj[o].temp_file THEN SetFile(ini.disk, ini.obj[o].filename, NoFile)
  ELSE ini.disk

\* GetTempFileNameW creates an empty file under a name no file has; the
\* disk has one such name
TempFree(disk) == FileOf(disk, "temp") = NoFile

\* File: a temporary file the object had is removed; the object takes the
\* name fname or, with fname empty, the name of the empty file that
\* GetTempFileNameW creates
File(o, fname) ==
  /\ ini.phase = "idle"
  /\ ini.obj[o].alive
  /\ fname = "" => TempFree(Released(o))
  /\ ini' = IF fname # ""
              THEN [ini EXCEPT !.disk = Released(o),
                               !.obj[o] = IniFile(fname), !.got = NoGot]
              ELSE [ini EXCEPT !.disk = SetFile(Released(o), "temp", <<>>),
                               !.obj[o] = [alive |-> TRUE, filename |-> "temp",
                                           temp_file |-> TRUE],
                               !.got = NoGot]
  /\ UNCHANGED <<ermode, input, buf, pc, call, ret, loc, saved, frame, wbuf>>

\* IniFile::IniFile (const std::string& file): object o comes to be
Construct(o, file) ==
  /\ ini.phase = "idle"
  /\ ~ini.obj[o].alive
  /\ ini' = [ini EXCEPT !.obj[o] = IniFile(file), !.got = NoGot]
  /\ UNCHANGED <<ermode, input, buf, pc, call, ret, loc, saved, frame, wbuf>>

\* IniFile::IniFile (): object o comes to be on a temporary file
ConstructTemp(o) ==
  /\ ini.phase = "idle"
  /\ ~ini.obj[o].alive
  /\ TempFree(ini.disk)
  /\ ini' = [ini EXCEPT !.disk = SetFile(ini.disk, "temp", <<>>),
                        !.obj[o] = [alive |-> TRUE, filename |-> "temp",
                                    temp_file |-> TRUE],
                        !.got = NoGot]
  /\ UNCHANGED <<ermode, input, buf, pc, call, ret, loc, saved, frame, wbuf>>

\* IniFile::IniFile (const IniFile& p): object o comes to be with the name
\* of p; the file is not temporary to it
CopyConstruct(o, p) ==
  /\ ini.phase = "idle"
  /\ ~ini.obj[o].alive
  /\ ini.obj[p].alive
  /\ ini' = [ini EXCEPT !.obj[o] = IniFile(ini.obj[p].filename), !.got = NoGot]
  /\ UNCHANGED <<ermode, input, buf, pc, call, ret, loc, saved, frame, wbuf>>

\* IniFile::~IniFile (): a temporary file is removed, the object is no more
Destroy(o) ==
  /\ ini.phase = "idle"
  /\ ini.obj[o].alive
  /\ ini' = [ini EXCEPT !.disk = Released(o), !.obj[o] = NoObject, !.got = NoGot]
  /\ UNCHANGED <<ermode, input, buf, pc, call, ret, loc, saved, frame, wbuf>>

\* readers run at any time, also while a writer sits in tmp_rename
GetStringCall(o, key, section) ==
  /\ ini.obj[o].alive
  /\ ini' = [ini EXCEPT !.got = <<"GetString", GetString(ThisFile(o), key, section, Default)>>]
  /\ UNCHANGED <<ermode, input, buf, pc, call, ret, loc, saved, frame, wbuf>>

GetIntCall(o, key, section) ==
  /\ ini.obj[o].alive
  /\ ini' = [ini EXCEPT !.got = <<"GetInt", GetInt(ThisFile(o), key, section, DefaultInt)>>]
  /\ UNCHANGED <<ermode, input, buf, pc, call, ret, loc, saved, frame, wbuf>>

\* the calls are made on object 1; object 2 is a copy of it, or what it is
\* copied from, and ends with its destructor
IniNext ==
  \/ \E o \in {1} :
       \/ \E key \in Keys, section \in Sections :
            \/ \E value \in Values : PutString(o, key, value, section)
            \/ \E value \in IntValues : PutInt(o, key, value, section)
            \/ DeleteKey(o, key, section)
            \/ GetStringCall(o, key, section)
            \/ GetIntCall(o, key, section)
       \/ \E section \in Sections : DeleteSection(o, section)
       \/ \E from_file \in FileNames \cup {"missing"}, from_sect \in Sections,
             to_sect \in Sections \cup {<<>>} :
            CopySection(o, from_file, from_sect, to_sect)
       \/ \E p \in FileNames \cup {"missing"} : IniAssign(o, p)
       \/ \E fname \in {"", "f", "other"} : File(o, fname)
       \/ \E file \in {"f", "other"} : Construct(o, file)
       \/ ConstructTemp(o)
  \/ \E o \in IniFiles :
       \/ \E p \in IniFiles : CopyConstruct(o, p)
       \/ Destroy(o)
  \/ TmpRename

IniSpec == IniInit /\ [][IniNext]_vars

\* ---------------------------------------------------------------------------
\* The counted operations on const char*: runes (s, nch), widen (s, nch) and
\* valid_str (s, nch), one iteration of their loops at a time.

MaxCounted == 2

CountedFragments ==
  { <<0>>, <<65>>, <<128>>, <<194, 128>>, <<224, 160, 128>>, <<239, 191, 189>>,
    <<240, 144, 128, 128>>, <<226, 130>> }

RECURSIVE ConcatsOf(_, _)
ConcatsOf(F, n) ==
  IF n = 0 THEN {<<>>}
  ELSE LET shorter == ConcatsOf(F, n - 1)
       IN shorter \cup {s \o f : s \in shorter, f \in F}

CountedInit ==
  /\ \E m \in Actions : ermode = [t \in Threads |-> IF t = 1 THEN m ELSE "replace"]
  /\ input \in {[kind |-> "utf8", data |-> b] :
                  b \in ConcatsOf(CountedFragments, MaxCounted) \ {<<>>}}
  /\ buf = input.data
  /\ pc = "idle"
  /\ call = [op |-> "none", thr |-> 1, ptr |-> 0, nch |-> 0, mode |-> "replace"]
  /\ ret = NoRet
  /\ loc = NoLoc
  /\ saved = [t \in Threads |-> NoSaved]
  /\ frame = [t \in Threads |-> NoFrame]
  /\ ini = NoIni
  /\ wbuf = NoBuffers

\* if (!nch) nch = strlen (s); const char* end = s + nch;
CountedBegin(t, op) ==
  /\ Ready
  /\ \E nch \in 0..Len(buf) :
       LET n == IF nch = 0 THEN strlen(Mem, 0) ELSE nch
       IN /\ call' = Call(op, t, 0, nch)
          /\ loc' = [s |-> 0, last |-> n, valid |-> TRUE, prev_mode |-> ermode[t]]
  /\ ret' = NoRet
  /\ pc' = op
  /\ UNCHANGED <<ermode, input, buf, saved, frame, ini, wbuf>>

RunesBegin(t) == CountedBegin(t, "runes")

\* while (s < end) { char32_t r = next (s); str.push_back (r); }
RunesStep(t) ==
  /\ pc = "runes" /\ call.thr = t
  /\ loc.s < loc.last
  /\ Len(ret.out) < MaxOut
  /\ LET r == next_ptr(Mem, loc.s, ermode[t]) IN
       IF r.err /= "none"
         THEN /\ ret' = Ret([err |-> r.err])
              /\ pc' = "done"
              /\ loc' = [loc EXCEPT !.s = r.ptr]
         ELSE /\ ret' = [ret EXCEPT !.out = Append(@, r.rune)]
              /\ loc' = [loc EXCEPT !.s = r.ptr]
              /\ pc' = pc
  /\ UNCHANGED <<ermode, input, buf, call, saved, frame, ini, wbuf>>

\* return str;
RunesEnd(t) ==
  /\ pc = "runes" /\ call.thr = t
  /\ ~(loc.s < loc.last)
  /\ pc' = "done"
  /\ UNCHANGED <<ermode, input, buf, call, ret, loc, saved, frame, ini, wbuf>>

WidenBegin(t) == CountedBegin(t, "widen")

\* the units one iteration of widen's loop pushes for the code point c
widen_units(c) ==
  IF c < 65536 THEN <<c>>
  ELSE <<(c - 65536) \div 1024 + 55296, ((c - 65536) % 1024) + 56320>>

\* while (s < end) { auto c = next (s); ... out.push_back ... }
WidenStep(t) ==
  /\ pc = "widen" /\ call.thr = t
  /\ loc.s < loc.last
  /\ Len(ret.wide) < MaxOut
  /\ LET r == next_ptr(Mem, loc.s, ermode[t]) IN
       IF r.err /= "none"
         THEN /\ ret' = Ret([err |-> r.err])
              /\ pc' = "done"
              /\ loc' = [loc EXCEPT !.s = r.ptr]
         ELSE /\ ret' = [ret EXCEPT !.wide = @ \o widen_units(r.rune)]
              /\ loc' = [loc EXCEPT !.s = r.ptr]
              /\ pc' = pc
  /\ UNCHANGED <<ermode, input, buf, call, saved, frame, ini, wbuf>>

\* return out;
WidenEnd(t) ==
  /\ pc = "widen" /\ call.thr = t
  /\ ~(loc.s < loc.last)
  /\ pc' = "done"
  /\ UNCHANGED <<ermode, input, buf, call, ret, loc, saved, frame, ini, wbuf>>

\* a counted loop that was entered goes on running
CountedRun ==
  \E t \in {1} :
    \/ ValidStrStep(t)
    \/ ValidStrEnd(t)
    \/ RunesStep(t)
    \/ RunesEnd(t)
    \/ WidenStep(t)
    \/ WidenEnd(t)

CountedNext ==
  \E t \in {1} :
    \/ ValidStrBegin(t)
    \/ ValidStrStep(t)
    \/ ValidStrEnd(t)
    \/ RunesBegin(t)
    \/ RunesStep(t)
    \/ RunesEnd(t)
    \/ WidenBegin(t)
    \/ WidenStep(t)
    \/ WidenEnd(t)

CountedSpec == CountedInit /\ [][CountedNext]_vars /\ WF_vars(CountedRun)

\* ---------------------------------------------------------------------------
\* narrow (const wchar_t* s, size_t nch), one iteration of its loop at a time.
\* ret.ptr is s (units read so far), ret.count is nch, ret.out is out.

\* the caller's array: the units of the string and its terminator
WMem == input.data \o <<0>>

\* the largest value of the model's integers stands for the largest size_t
SIZE_MAX == 2147483647

\* --nch on a size_t
dec_size(n) == IF n = 0 THEN SIZE_MAX ELSE n - 1

wcslen(m) == CHOOSE n \in 0..(Len(m) - 1) : m[n + 1] = 0 /\ \A k \in 1..n : m[k] # 0

NarrowInit ==
  /\ \E m \in Actions : ermode = [t \in Threads |-> IF t = 1 THEN m ELSE "replace"]
  /\ input \in {[kind |-> "wide", data |-> w] : w \in SeqsUpTo(Units16, MaxWide)}
  /\ buf = <<>>
  /\ pc = "input"
  /\ call = [op |-> "none", thr |-> 1, ptr |-> 0, nch |-> 0, mode |-> "replace"]
  /\ ret = NoRet
  /\ loc = NoLoc
  /\ saved = [t \in Threads |-> NoSaved]
  /\ frame = [t \in Threads |-> NoFrame]
  /\ ini = NoIni
  /\ wbuf = NoBuffers

\* std::string out; if (!nch) nch = wcslen (s);
NarrowCountBegin(t) ==
  /\ pc = "input" /\ input.kind = "wide"
  /\ \E nch \in 0..Len(input.data) :
       /\ call' = Call("narrow_n", t, 0, nch)
       /\ ret' = Ret([ptr |-> 0, count |-> IF nch = 0 THEN wcslen(WMem) ELSE nch])
  /\ pc' = "narrow_n"
  /\ UNCHANGED <<ermode, input, buf, loc, saved, frame, ini, wbuf>>

\* one pass through the body of while (nch) with both reads inside the array
narrow_n_body(m, s, nch, out, mode) ==
  LET c == At(m, s)
      bad == throw_or_replace("invalid_wchar", mode)
      st == IF 56319 < c /\ c < 57343
              THEN [r |-> bad, s |-> s + 1, nch |-> nch]
            ELSE IF 55295 < c /\ c < 56320
              THEN IF nch = 0
                     THEN [r |-> bad, s |-> s + 1, nch |-> nch]
                     ELSE LET cl == At(m, s + 1) IN
                       IF cl < 56320 \/ cl > 57343
                         THEN [r |-> bad, s |-> s + 2, nch |-> dec_size(nch)]
                         ELSE [r |-> [rune |-> (((c - 55296) * 1024)
                                                + (cl - 56320)) + 65536,
                                      err |-> "none"],
                               s |-> s + 2, nch |-> dec_size(nch)]
            ELSE [r |-> [rune |-> c, err |-> "none"], s |-> s + 1, nch |-> nch]
      e == encode(st.r.rune, out, mode)
  IN  IF st.r.err /= "none" THEN [err |-> st.r.err, ptr |-> st.s, count |-> st.nch, out |-> out]
      ELSE IF e.err /= "none" THEN [err |-> e.err, ptr |-> st.s, count |-> st.nch, out |-> out]
      ELSE [err |-> "none", ptr |-> st.s, count |-> dec_size(st.nch), out |-> e.out]

\* the units one pass reads: one, or two after a high surrogate
narrow_n_reads(m, s) ==
  IF 55295 < At(m, s) /\ At(m, s) < 56320 THEN 2 ELSE 1

\* while (nch) { ... encode (c, out); --nch; }
NarrowCountStep(t) ==
  /\ pc = "narrow_n" /\ call.thr = t
  /\ ret.count # 0
  /\ IF ret.ptr >= Len(WMem) \/ ret.ptr + narrow_n_reads(WMem, ret.ptr) > Len(WMem)
       THEN \* a read outside the array: the behaviour is undefined from here on
            /\ pc' = "undefined"
            /\ ret' = [ret EXCEPT !.ptr = Len(WMem) + 1]
       ELSE LET r == narrow_n_body(WMem, ret.ptr, ret.count, ret.out, ermode[t]) IN
            /\ ret' = [ret EXCEPT !.err = r.err, !.ptr = r.ptr, !.count = r.count,
                                  !.out = IF r.err = "none" THEN r.out ELSE <<>>]
            /\ pc' = IF r.err = "none" THEN pc ELSE "done"
  /\ UNCHANGED <<ermode, input, buf, call, loc, saved, frame, ini, wbuf>>

\* return out;
NarrowCountEnd(t) ==
  /\ pc = "narrow_n" /\ call.thr = t
  /\ ret.count = 0
  /\ pc' = "done"
  /\ UNCHANGED <<ermode, input, buf, call, ret, loc, saved, frame, ini, wbuf>>

NarrowRun == \E t \in {1} : NarrowCountStep(t) \/ NarrowCountEnd(t)

NarrowNext ==
  \E t \in {1} :
    \/ NarrowWide(t)
    \/ NarrowCountBegin(t)
    \/ NarrowCountStep(t)
    \/ NarrowCountEnd(t)

NarrowSpec == NarrowInit /\ [][NarrowNext]_vars /\ WF_vars(NarrowRun)

\* ---------------------------------------------------------------------------
\* utf8::buffer: an array of sz wide characters.

MaxBuf == 3
MaxBufUnits == 1

\* strings assigned to a buffer: 'A', U+0080 and U+10000
BufferFragments == { <<65>>, <<194, 128>>, <<240, 144, 128, 128>> }

\* an element whose value the model does not hold: what memcpy read after
\* the end of its source. It is whatever lay there, any wchar_t; the values
\* the model stores are none of them negative.
Indeterminate == -1

\* what a caller stores through the pointer to the array: a terminator or 'A'
WrittenUnits == {0, 65}

\* narrow (const wchar_t* s, size_t nch): the loop run to its end, or to a
\* read outside the array m, where the behaviour is undefined, or to the
\* read of an element the model does not hold, where what follows depends
\* on that value
RECURSIVE narrow_n(_, _, _, _, _)
narrow_n(m, s, nch, out, mode) ==
  IF nch = 0 THEN [out |-> out, err |-> "none"]
  ELSE IF s >= Len(m) THEN [out |-> <<>>, err |-> "undefined"]
  ELSE IF At(m, s) = Indeterminate THEN [out |-> <<>>, err |-> "indeterminate"]
  ELSE IF s + narrow_n_reads(m, s) > Len(m)
    THEN [out |-> <<>>, err |-> "undefined"]
  ELSE IF narrow_n_reads(m, s) = 2 /\ At(m, s + 1) = Indeterminate
    THEN [out |-> <<>>, err |-> "indeterminate"]
  ELSE LET r == narrow_n_body(m, s, nch, out, mode) IN
    IF r.err /= "none" THEN [out |-> <<>>, err |-> r.err]
    ELSE narrow_n(m, r.ptr, r.count, r.out, mode)

\* narrow (ptr) on a null-terminated array
narrow_ptr(m, mode) == narrow_n(m, 0, wcslen(m), <<>>, mode)

\* utf8::buffer b (size): the array is zero-filled, ptr is nullptr for size 0
buffer(size) == [ptr |-> [k \in 1..size |-> 0], sz |-> size]

\* the second object at the start: as constructed, or after
\* utf8::buffer b2 (2); b2 = "A"
OtherBuffers ==
  {buffer(size) : size \in 0..MaxBuf} \cup {[ptr |-> <<65, 0>>, sz |-> 2]}

\* two buffers constructed
BufferInit ==
  /\ \E m \in Actions : ermode = [t \in Threads |-> IF t = 1 THEN m ELSE "replace"]
  /\ input = [kind |-> "utf8", data |-> <<>>]
  /\ buf = <<>>
  /\ pc = "idle"
  /\ call = [op |-> "none", thr |-> 1, ptr |-> 0, nch |-> 0, mode |-> "replace"]
  /\ ret = NoRet
  /\ loc = NoLoc
  /\ saved = [t \in Threads |-> NoSaved]
  /\ frame = [t \in Threads |-> NoFrame]
  /\ ini = NoIni
  /\ \E size \in 0..MaxBuf, other \in OtherBuffers :
       wbuf = [b \in Buffers |-> IF b = 1 THEN buffer(size) ELSE other]

\* memcpy (ptr, src, sz * sizeof (wchar_t)): what it leaves in ptr. With
\* fewer than sz elements in src it reads after the end of src, and the
\* elements it stores from there are what lay behind src.
memcpy(src, sz) ==
  [k \in 1..sz |-> IF k <= Len(src) THEN src[k] ELSE Indeterminate]

\* buffer::operator = (const std::string& rhs) on object b; call.ptr is the
\* object, ret.lo the size before, ret.count new_size, ret.hi the number of
\* elements memcpy reads. A buffer larger than new_size keeps its size, and
\* memcpy reads sz elements of the new_size that wrhs has.
BufferAssign(t, b, rhs) ==
  /\ pc \in {"idle", "done"}
  /\ call' = Call("buffer_assign", t, b, 0)
  /\ buf' = rhs
  /\ LET w == widen_str(rhs, ermode[t])
         wrhs == w.wide \o <<0>>
         new_size == Len(w.wide) + 1
         sz == IF new_size > wbuf[b].sz THEN new_size ELSE wbuf[b].sz
     IN  IF w.err /= "none"
           THEN /\ ret' = Ret([err |-> w.err])
                /\ pc' = "done"
                /\ UNCHANGED wbuf
           ELSE /\ ret' = Ret([lo |-> wbuf[b].sz, count |-> new_size, hi |-> sz])
                /\ pc' = "done"
                /\ wbuf' = [wbuf EXCEPT ![b] = [ptr |-> memcpy(wrhs, sz), sz |-> sz]]
  /\ UNCHANGED <<ermode, input, loc, saved, frame, ini>>

\* buffer::operator = (const buffer& rhs) on object b: the array is deleted,
\* then a new one of the size of rhs is filled from rhs.ptr. With rhs the
\* object itself memcpy reads the array just deleted: the behaviour is
\* undefined from there on.
BufferCopyAssign(t, b, rhs) ==
  /\ pc \in {"idle", "done"}
  /\ call' = Call("buffer_copy_assign", t, b, 0)
  /\ ret' = Ret([lo |-> wbuf[b].sz, count |-> wbuf[rhs].sz])
  /\ IF b = rhs /\ wbuf[b].sz # 0
       THEN /\ pc' = "undefined"
            /\ UNCHANGED wbuf
       ELSE /\ pc' = "done"
            /\ wbuf' = [wbuf EXCEPT ![b] = [ptr |-> wbuf[rhs].ptr, sz |-> wbuf[rhs].sz]]
  /\ UNCHANGED <<ermode, input, buf, loc, saved, frame, ini>>

\* buffer::buffer (const buffer& other): object b starts anew as a copy
BufferCopy(t, b, other) ==
  /\ pc \in {"idle", "done"}
  /\ b # other
  /\ call' = Call("buffer_copy", t, b, 0)
  /\ ret' = Ret([lo |-> wbuf[b].sz, count |-> wbuf[other].sz])
  /\ pc' = "done"
  /\ wbuf' = [wbuf EXCEPT ![b] = [ptr |-> wbuf[other].ptr, sz |-> wbuf[other].sz]]
  /\ UNCHANGED <<ermode, input, buf, loc, saved, frame, ini>>

\* buffer::operator wchar_t* (): the caller stores c in element i of the array
BufferWrite(t, b, i, c) ==
  /\ pc \in {"idle", "done"}
  /\ i < wbuf[b].sz
  /\ call' = Call("buffer_ptr", t, b, 0)
  /\ ret' = Ret([ptr |-> i])
  /\ pc' = "done"
  /\ wbuf' = [wbuf EXCEPT ![b].ptr[i + 1] = c]
  /\ UNCHANGED <<ermode, input, buf, loc, saved, frame, ini>>

\* buffer::operator std::string () const: narrow (ptr). wcslen reads from
\* ptr up to the first zero; with ptr nullptr, or no zero in the array, it
\* reads outside every array and the behaviour is undefined, as it is when
\* the loop of narrow runs past the terminator. Where wcslen or narrow
\* reads an element the model does not hold, the call ends as that value
\* has it (a string, an exception, a read outside the array): the model
\* records that much, ret.err = "indeterminate".
BufferToString(t, b) ==
  /\ pc \in {"idle", "done"}
  /\ call' = Call("buffer_string", t, b, 0)
  /\ LET a == wbuf[b].ptr
         r == IF \E k \in 1..wbuf[b].sz :
                   a[k] = Indeterminate /\ \A j \in 1..(k - 1) : a[j] # 0
              THEN [out |-> <<>>, err |-> "indeterminate"]
              ELSE IF \E k \in 1..wbuf[b].sz : a[k] = 0
              THEN narrow_ptr(a, ermode[t])
              ELSE [out |-> <<>>, err |-> "undefined"]
     IN  IF r.err = "undefined"
           THEN /\ ret' = NoRet
                /\ pc' = "undefined"
           ELSE /\ ret' = Ret([out |-> r.out, err |-> r.err])
                /\ pc' = "done"
  /\ UNCHANGED <<ermode, input, buf, loc, saved, frame, ini, wbuf>>

BufferNext ==
  \E t \in {1} : \E b \in Buffers :
    \/ \E rhs \in ConcatsOf(BufferFragments, MaxBufUnits) : BufferAssign(t, b, rhs)
    \/ \E rhs \in Buffers : BufferCopyAssign(t, b, rhs)
    \/ \E other \in Buffers : BufferCopy(t, b, other)
    \/ \E i \in 0..(MaxBuf - 1), c \in WrittenUnits : BufferWrite(t, b, i, c)
    \/ BufferToString(t, b)

BufferSpec == BufferInit /\ [][BufferNext]_vars

(***************************************************************************)
(* Reference notions the properties are stated with.  None of them is      *)
(* used by the model of the code.                                          *)
(***************************************************************************)
IsCodePoint(c) == c >= 0 /\ c <= 1114111 /\ ~(c >= 55296 /\ c <= 57343)

IsHighSurrogate(u) == u >= 55296 /\ u <= 56319
IsLowSurrogate(u) == u >= 56320 /\ u <= 57343

\* Well-formed UTF-8 byte sequences (Unicode, table 3-7)
InRange(s, p, lo, hi) == p < Len(s) /\ At(s, p) >= lo /\ At(s, p) <= hi

RECURSIVE WellFormedFrom(_, _)
WellFormedFrom(s, p) ==
  IF p = Len(s) THEN TRUE
  ELSE LET b == At(s, p) IN
    IF b <= 127 THEN WellFormedFrom(s, p + 1)
    ELSE IF b >= 194 /\ b <= 223
      THEN InRange(s, p + 1, 128, 191) /\ WellFormedFrom(s, p + 2)
    ELSE IF b >= 224 /\ b <= 239
      THEN /\ InRange(s, p + 1, IF b = 224 THEN 160 ELSE 128,
                                IF b = 237 THEN 159 ELSE 191)
           /\ InRange(s, p + 2, 128, 191)
           /\ WellFormedFrom(s, p + 3)
    ELSE IF b >= 240 /\ b <= 244
      THEN /\ InRange(s, p + 1, IF b = 240 THEN 144 ELSE 128,
                                IF b = 244 THEN 143 ELSE 191)
           /\ InRange(s, p + 2, 128, 191)
           /\ InRange(s, p + 3, 128, 191)
           /\ WellFormedFrom(s, p + 4)
    ELSE FALSE

WellFormed(s) == WellFormedFrom(s, 0)

\* the first offset at or after p that holds no continuation byte
RECURSIVE ContRunEnd(_, _)
ContRunEnd(s, p) ==
  IF p < Len(s) /\ IsCont(At(s, p)) THEN ContRunEnd(s, p + 1) ELSE p

\* a high surrogate with no low surrogate after it, or a low surrogate with
\* no high surrogate before it
HasLoneSurrogate(ws) ==
  \E i \in 1..Len(ws) :
    \/ IsHighSurrogate(ws[i]) /\ (i = Len(ws) \/ ~IsLowSurrogate(ws[i + 1]))
    \/ IsLowSurrogate(ws[i]) /\ (i = 1 \/ ~IsHighSurrogate(ws[i - 1]))

\* the bytes EF BF BD occur in s
ContainsFFFD(s) ==
  \E i \in 1..(Len(s) - 2) : s[i] = 239 /\ s[i + 1] = 191 /\ s[i + 2] = 189

\* the number of continuation bytes a lead byte announces: 1 for 110xxxxx,
\* 2 for 1110xxxx, 3 for 11110xxx, 0 for any other byte
Promised(b) ==
  IF b \div 32 = 6 THEN 1
  ELSE IF b \div 16 = 14 THEN 2
  ELSE IF b \div 8 = 30 THEN 3
  ELSE 0

\* the number of continuation bytes that follow the byte at offset p
ContAfter(s, p) == ContRunEnd(s, p + 1) - (p + 1)

\* the value carried by the lead byte at offset p and the n continuation
\* bytes after it
SeqValue(s, p, n) ==
  IF n = 1 THEN (At(s, p) % 32) * 64 + (At(s, p + 1) % 64)
  ELSE IF n = 2
    THEN (At(s, p) % 16) * 4096 + (At(s, p + 1) % 64) * 64
           + (At(s, p + 2) % 64)
  ELSE (At(s, p) % 8) * 262144 + (At(s, p + 1) % 64) * 4096
         + (At(s, p + 2) % 64) * 64 + (At(s, p + 3) % 64)

\* a complete multi-byte sequence starts at offset p
CompleteAt(s, p) ==
  /\ p < Len(s)
  /\ Promised(At(s, p)) > 0
  /\ ContAfter(s, p) >= Promised(At(s, p))

\* the smallest value that needs n continuation bytes
MinValue(n) == IF n = 1 THEN 128 ELSE IF n = 2 THEN 2048 ELSE 65536

\* the sequence at offset p is complete and carries a value that fewer
\* bytes can encode
OverlongAt(s, p) ==
  /\ CompleteAt(s, p)
  /\ SeqValue(s, p, Promised(At(s, p))) < MinValue(Promised(At(s, p)))

\* a complete 3-byte sequence carrying a value in [0xD800, 0xDFFF] starts at
\* offset p
SurrogateAt(s, p) ==
  /\ CompleteAt(s, p)
  /\ Promised(At(s, p)) = 2
  /\ SeqValue(s, p, 2) >= 55296 /\ SeqValue(s, p, 2) <= 57343

\* the number of bytes of s that are not continuation bytes
LeadCount(s) == Cardinality({i \in 1..Len(s) : ~IsCont(s[i])})

\* no byte of s is 0
NulFree(s) == \A i \in 1..Len(s) : s[i] /= 0

\* the classification of the C standard (7.4.1) in the "C" locale
C_isspace(c) == c \in {32, 9, 10, 11, 12, 13}
C_isblank(c) == c \in {32, 9}
C_isdigit(c) == c \in 48..57
C_isupper(c) == c \in 65..90
C_islower(c) == c \in 97..122
C_isalpha(c) == C_isupper(c) \/ C_islower(c)
C_isalnum(c) == C_isalpha(c) \/ C_isdigit(c)
C_isxdigit(c) == C_isdigit(c) \/ c \in 65..70 \/ c \in 97..102

IsDecoderCall == call.op \in {"next_it", "next_ptr", "prev_it", "prev_ptr"}

(***************************************************************************)
(* Properties.                                                             *)
(***************************************************************************)
\* C1: for every code point c outside the surrogate range, under either
\* error mode, narrow encodes c without failure, and next on the iterator
\* form, from offset 0 of the bytes produced, reports no failure, returns
\* c and leaves the cursor at the end of those bytes.
C1_RoundTrip ==
  (input.kind = "u32" /\ Len(input.data) = 1 /\ IsCodePoint(input.data[1]))
    => /\ call.op = "narrow_u32" => (ret.err = "none" /\ Len(ret.out) >= 1)
       /\ (call.op = "next_it" /\ call.ptr = 0)
            => /\ ret.err = "none" /\ ~ret.bad
               /\ ret.rune = input.data[1]
               /\ ret.ptr = Len(buf)

C1_Witness ==
  /\ input.kind = "u32" /\ input.data = <<1114111>>
  /\ call.op = "next_it" /\ call.ptr = 0 /\ call.mode = "except"
  /\ buf = <<244, 143, 191, 191>> /\ ret.rune = 1114111 /\ ret.ptr = 4

\* C2: on a well-formed string the backward loop with prev succeeds at
\* every step, the forward decoding succeeds at every step, and the code
\* points found backward, put in front of one another, are the forward
\* sequence.
C2_InverseNavigation ==
  (call.op = "prev_string" /\ WellFormed(buf))
    => LET fwd == runes_str(buf, call.mode) IN
         /\ fwd.err = "none" /\ fwd.nbad = 0
         /\ ret.err = "none" /\ ret.nbad = 0
         /\ pc = "done" => ret.out = fwd.out

\* C3: no decoder returns without failure a value above 0x10FFFF.
C3_RangeBound ==
  (IsDecoderCall /\ ~ret.bad) => ret.rune <= 1114111

\* C4: valid_str returns false when decoding the checked bytes under
\* replace substitutes a code point, and true otherwise.
C4_ValidStr ==
  (call.op = "valid_str" /\ pc = "done")
    => (ret.valid <=> (runes_str(SubSeq(buf, 1, loc.last), "replace").nbad = 0))

\* C5: next called on a continuation byte fails and leaves the cursor on
\* the first following byte that is not a continuation byte, or at the end.
C5_Resynchronize ==
  (call.op \in {"next_it", "next_ptr"} /\ call.ptr < Len(buf)
     /\ IsCont(At(buf, call.ptr)))
    => (ret.bad /\ ret.ptr = ContRunEnd(buf, call.ptr))

\* C6: narrowing 16-bit units with a lone surrogate is an invalid_wchar
\* failure: U+FFFD in the output under replace, invalid_wchar thrown under
\* except.
C6_LoneSurrogate ==
  (call.op = "narrow_ws" /\ HasLoneSurrogate(input.data))
    => IF call.mode = "except"
         THEN ret.err = "invalid_wchar"
         ELSE ret.err = "none" /\ ContainsFFFD(ret.out)

\* C7: when prev fails, under either error mode, the cursor after the call
\* is the cursor before the call.
C7_PrevRestoresCursor ==
  (call.op \in {"prev_it", "prev_ptr"} /\ ret.bad) => ret.ptr = call.ptr

C7_Witness ==
  /\ call.op = "prev_it" /\ ret.bad /\ call.mode = "except"
  /\ ret.err = "invalid_utf8"
  /\ buf = <<65, 240, 130, 130, 172>> /\ call.ptr = 5 /\ ret.ptr = 5
  /\ ret.lo = 1

\* C8: prev reads no byte before the start of the sequence and leaves the
\* cursor at or after it.
C8_PrevLowerBound ==
  (call.op \in {"prev_it", "prev_ptr"}) => (ret.lo >= 0 /\ ret.ptr >= 0)

\* C9: is_valid and valid_str throw nothing, and the thread's error mode
\* after the call is its error mode before the call.
C9_ValidityNoThrow ==
  (call.op \in {"is_valid_ptr", "is_valid_it", "valid_str"})
    => /\ ret.err = "none"
       /\ pc = "done" => ermode[call.thr] = call.mode

C9_Witness ==
  /\ call.op = "valid_str" /\ pc = "done" /\ call.mode = "except"
  /\ ermode[call.thr] = "except" /\ ~ret.valid
  /\ buf = <<193, 161, 65>> /\ loc.s = 2 /\ loc.last = 3

\* C10: error_mode returns the mode that was in force on the thread just
\* before the call; while a thread has set except, malformed input makes
\* next throw invalid_utf8; and after the thread has passed the returned
\* value back to error_mode, its mode is the one in force before the change,
\* so that with replace before it malformed input yields U+FFFD again.
C10_PolicyScoping ==
  /\ call.op \in {"error_mode", "restore"} => ret.mode = call.mode
  /\ \A t \in Threads :
       /\ saved[t].phase = "set"
            => (saved[t].prev_mode = saved[t].entry /\ ermode[t] = saved[t].req)
       /\ saved[t].phase = "restored" => ermode[t] = saved[t].entry
  /\ (call.op \in {"next_it", "next_ptr"} /\ ret.bad)
       => LET sv == saved[call.thr] IN
            /\ (sv.phase = "set" /\ sv.req = "except")
                 => ret.err = "invalid_utf8"
            /\ (sv.phase = "restored" /\ sv.entry = "replace")
                 => (ret.err = "none" /\ ret.rune = REPLACEMENT_CHARACTER)

C10_Witness ==
  /\ saved[1] = [req |-> "except", prev_mode |-> "replace",
                 entry |-> "replace", phase |-> "restored"]
  /\ ermode[2] = "except"
  /\ call.op = "next_it" /\ call.thr = 1 /\ call.ptr = 0
  /\ buf = <<240, 130, 130, 172>>
  /\ ret.bad /\ ret.err = "none" /\ ret.rune = REPLACEMENT_CHARACTER

\* C11: with two threads interleaving their calls, failures met by a
\* thread's next and narrow are resolved by the mode that thread itself set
\* last (replace if it set none): thrown if and only if that mode is except;
\* error_mode returns to a thread the mode that thread had set before; a
\* thread's valid_str throws nothing whatever the other thread sets during
\* its loop, and when it returns the thread's mode is again the one the
\* thread had set.
C11_ThreadIsolation ==
  /\ (call.op \in {"next_it", "next_ptr"} /\ ret.bad)
       => IF Own(call.thr) = "except"
            THEN ret.err = "invalid_utf8"
            ELSE ret.err = "none" /\ ret.rune = REPLACEMENT_CHARACTER
  /\ (call.op = "narrow_u32" /\ ~IsCodePoint(input.data[1]))
       => IF Own(call.thr) = "except"
            THEN ret.err = "invalid_char32"
            ELSE ret.err = "none" /\ ret.out = <<239, 191, 189>>
  /\ (call.op = "narrow_ws" /\ HasLoneSurrogate(input.data))
       => IF Own(call.thr) = "except"
            THEN ret.err /= "none"
            ELSE ret.err = "none" /\ ret.out = <<239, 191, 189>>
  /\ call.op = "error_mode" => saved[call.thr].prev_mode = saved[call.thr].entry
  /\ call.op \in {"valid_str_step", "valid_str"} => ret.err = "none"
  /\ call.op = "valid_str" => call.mode = "replace"
  /\ \A t \in Threads :
       ModeOf(t) = IF frame[t].pc = "valid_str" THEN "replace" ELSE Own(t)

\* thread 2 is inside its valid_str (replace forced) after thread 1 set
\* except, and thread 1's next on the malformed input throws
C11_Witness ==
  /\ buf = <<240, 130, 130, 172>>
  /\ Own(1) = "except" /\ Own(2) = "replace"
  /\ frame[2].pc = "valid_str" /\ frame[2].s = 4 /\ ~frame[2].valid
  /\ call.op = "next_it" /\ call.thr = 1 /\ ret.bad
  /\ ret.err = "invalid_utf8"

\* C12: for a 32-bit value above 0x10FFFF or in [0xD800, 0xDFFF], encode
\* under replace appends exactly the bytes EF BF BD to the string and
\* reports no failure; under except it throws invalid_char32 and the string
\* is what it was before the call.
C12_EncodeInvalid ==
  (call.op = "encode" /\ ~IsCodePoint(input.data[Len(input.data)]))
    => LET before == narrow_u32(SubSeq(input.data, 1, Len(input.data) - 1),
                                call.mode).out
       IN /\ Len(before) = call.ptr
          /\ IF call.mode = "except"
               THEN ret.err = "invalid_char32" /\ ret.out = before
               ELSE ret.err = "none" /\ ret.out = before \o <<239, 191, 189>>

\* under except, encode (0xDFFF, str) with str holding U+10FFFF already
C12_Witness ==
  /\ call.op = "encode" /\ call.mode = "except"
  /\ input.data = <<1114111, 57343>>
  /\ call.ptr = 4 /\ ret.out = <<244, 143, 191, 191>>
  /\ ret.err = "invalid_char32"

\* C13: under except, runes on a string that is not well-formed UTF-8
\* throws invalid_utf8 and returns no code point.
C13_ThrowNoPartial ==
  (call.op = "runes" /\ call.mode = "except" /\ ~WellFormed(buf))
    => (ret.err = "invalid_utf8" /\ ret.out = <<>>)

\* C14: next called on a lead byte that announces N continuation bytes and
\* is followed by k < N of them (then by another byte or by the end) fails,
\* U+FFFD under replace and invalid_utf8 under except, and leaves the cursor
\* just after the k continuation bytes: beyond its starting position and
\* not beyond the end.
C14_Truncated ==
  (call.op \in {"next_it", "next_ptr"} /\ call.ptr < Len(buf)
     /\ Promised(At(buf, call.ptr)) > 0
     /\ ContAfter(buf, call.ptr) < Promised(At(buf, call.ptr)))
    => /\ ret.bad
       /\ IF call.mode = "except"
            THEN ret.err = "invalid_utf8"
            ELSE ret.err = "none" /\ ret.rune = REPLACEMENT_CHARACTER
       /\ ret.ptr = call.ptr + 1 + ContAfter(buf, call.ptr)
       /\ ret.ptr > call.ptr /\ ret.ptr <= Len(buf)

\* E2 82 followed by 'A': one continuation byte of the two announced
C14_Witness ==
  /\ buf = <<226, 130, 65>>
  /\ call.op = "next_it" /\ call.ptr = 0 /\ call.mode = "replace"
  /\ ret.bad /\ ret.rune = REPLACEMENT_CHARACTER /\ ret.ptr = 2

\* C15: under replace, every call of next on the iterator form with the
\* cursor before the end of the string, whatever its bytes, returns with
\* the cursor strictly further and not beyond the end; so the loop of runes
\* comes to its end, with one code point for each call and at most one for
\* each byte.
C15_ForwardProgress ==
  /\ (call.op = "next_it" /\ call.mode = "replace" /\ call.ptr < Len(buf))
       => (ret.err = "none" /\ call.ptr < ret.ptr /\ ret.ptr <= Len(buf))
  /\ (call.op = "runes" /\ call.mode = "replace")
       => /\ ret.err = "none"
          /\ Len(ret.out) <= Len(buf)
          /\ Len(buf) > 0 => Len(ret.out) > 0

\* an invalid lead byte followed by a continuation byte: one call skips both
C15_Witness ==
  /\ buf = <<255, 128>>
  /\ call.op = "next_it" /\ call.mode = "replace" /\ call.ptr = 0
  /\ ret.bad /\ ret.ptr = 2

\* C16: next, in either form, called on a complete multi-byte sequence
\* whose value fewer bytes can encode (2 bytes for a value below 0x80, 3
\* bytes below 0x800, 4 bytes below 0x10000) fails: U+FFFD under replace,
\* invalid_utf8 under except.
C16_Overlong ==
  (call.op \in {"next_it", "next_ptr"} /\ OverlongAt(buf, call.ptr))
    => /\ ret.bad
       /\ IF call.mode = "except"
            THEN ret.err = "invalid_utf8"
            ELSE ret.err = "none" /\ ret.rune = REPLACEMENT_CHARACTER

\* F0 82 82 AC, the 4-byte form of U+20AC, under except
C16_Witness ==
  /\ buf = <<65, 240, 130, 130, 172>>
  /\ call.op = "next_ptr" /\ call.ptr = 1 /\ call.mode = "except"
  /\ ret.bad /\ ret.err = "invalid_utf8"

\* C17: next called at the start of a 3-byte sequence that carries a value
\* in [0xD800, 0xDFFF], and prev called just after it, fail, in both forms:
\* U+FFFD under replace, invalid_utf8 under except.
C17_EncodedSurrogate ==
  ((call.op \in {"next_it", "next_ptr"} /\ SurrogateAt(buf, call.ptr))
     \/ (call.op \in {"prev_it", "prev_ptr"} /\ call.ptr >= 3
           /\ SurrogateAt(buf, call.ptr - 3)))
    => /\ ret.bad
       /\ IF call.mode = "except"
            THEN ret.err = "invalid_utf8"
            ELSE ret.err = "none" /\ ret.rune = REPLACEMENT_CHARACTER

\* prev under replace just after ED BF BF, the 3-byte form of 0xDFFF
C17_Witness ==
  /\ buf = <<65, 237, 191, 191>>
  /\ call.op = "prev_ptr" /\ call.ptr = 4 /\ call.mode = "replace"
  /\ ret.bad /\ ret.rune = REPLACEMENT_CHARACTER /\ ret.ptr = 4

\* C18: for a code point c in [0x10000, 0x10FFFF], widen on the encoding
\* of c returns exactly the two units 0xD800 + ((c - 0x10000) >> 10) and
\* 0xDC00 + ((c - 0x10000) & 0x3FF), and narrow on these two units returns
\* the encoding of c again.
C18_SurrogatePairs ==
  (input.kind = "u32" /\ Len(input.data) = 1
     /\ input.data[1] >= 65536 /\ input.data[1] <= 1114111)
    => LET c == input.data[1] - 65536
           pair == <<55296 + (c \div 1024), 56320 + (c % 1024)>>
       IN /\ call.op = "widen" => (ret.err = "none" /\ ret.wide = pair)
          /\ call.op = "narrow_back"
               => (ret.err = "none" /\ ret.wide = pair /\ ret.out = buf)

\* U+10FFFF: F4 8F BF BF to {0xDBFF, 0xDFFF} and back
C18_Witness ==
  /\ input.kind = "u32" /\ input.data = <<1114111>>
  /\ call.op = "narrow_back"
  /\ ret.wide = <<56319, 57343>>
  /\ buf = <<244, 143, 191, 191>> /\ ret.out = buf

\* C19: for a valid code point c alone, narrow returns 1 byte 0xxxxxxx for
\* c <= 0x7F, 2 bytes 110xxxxx 10xxxxxx for c <= 0x7FF, 3 bytes 1110xxxx
\* 10xxxxxx 10xxxxxx for c <= 0xFFFF and 4 bytes 11110xxx 10xxxxxx 10xxxxxx
\* 10xxxxxx above, the x bits being the bits of c from the highest to the
\* lowest.
C19_EncodingTable ==
  (call.op = "narrow_u32" /\ Len(input.data) = 1 /\ IsCodePoint(input.data[1]))
    => LET c == input.data[1]
           o == ret.out
       IN /\ ret.err = "none"
          /\ IF c <= 127 THEN o = <<c>>
             ELSE IF c <= 2047
               THEN /\ Len(o) = 2
                    /\ o[1] \div 32 = 6 /\ o[1] % 32 = c \div 64
                    /\ o[2] \div 64 = 2 /\ o[2] % 64 = c % 64
             ELSE IF c <= 65535
               THEN /\ Len(o) = 3
                    /\ o[1] \div 16 = 14 /\ o[1] % 16 = c \div 4096
                    /\ o[2] \div 64 = 2 /\ o[2] % 64 = (c \div 64) % 64
                    /\ o[3] \div 64 = 2 /\ o[3] % 64 = c % 64
             ELSE /\ Len(o) = 4
                  /\ o[1] \div 8 = 30 /\ o[1] % 8 = c \div 262144
                  /\ o[2] \div 64 = 2 /\ o[2] % 64 = (c \div 4096) % 64
                  /\ o[3] \div 64 = 2 /\ o[3] % 64 = (c \div 64) % 64
                  /\ o[4] \div 64 = 2 /\ o[4] % 64 = c % 64

\* U+0800, the first code point that takes 3 bytes: E0 A0 80
C19_Witness ==
  /\ call.op = "narrow_u32" /\ input.data = <<2048>>
  /\ ret.err = "none" /\ ret.out = <<224, 160, 128>>

\* C20: on a well-formed string, length returns the number of bytes that
\* are not continuation bytes, which is the number of code points that
\* decoding the whole string returns; the pointer form does so for the
\* bytes before the first NUL.
C20_Length ==
  /\ (call.op = "length_str" /\ WellFormed(buf))
       => /\ ret.count = LeadCount(buf)
          /\ ret.count = Len(runes_str(buf, call.mode).out)
  /\ (call.op = "length_ptr" /\ WellFormed(buf))
       => LET cstr == SubSeq(buf, 1, strlen(Mem, 0)) IN
            /\ ret.count = LeadCount(cstr)
            /\ ret.count = Len(runes_str(cstr, call.mode).out)

\* three code points of 4 bytes each: 12 bytes, length 3
C20_Witness ==
  /\ buf = Emojis /\ Len(buf) = 12
  /\ call.op = "length_str" /\ ret.count = 3

\* C21: next on the pointer form, called with the cursor on a NUL, returns
\* 0 without failure, in either mode, and leaves the cursor where it was;
\* and on a well-formed string without NUL the loop that calls next until
\* it returns 0 counts one iteration for each code point and stops with the
\* cursor on the terminating NUL.
C21_NulTerminator ==
  /\ (call.op = "next_ptr" /\ At(Mem, call.ptr) = 0)
       => (ret.rune = 0 /\ ~ret.bad /\ ret.err = "none" /\ ret.ptr = call.ptr)
  /\ (call.op = "next_loop" /\ WellFormed(buf) /\ NulFree(buf))
       => /\ ret.err = "none"
          /\ ret.count = LeadCount(buf)
          /\ ret.count = Len(runes_str(buf, call.mode).out)
          /\ ret.ptr = Len(buf)

\* the loop of the test: 3 iterations over 12 bytes, under except
C21_Witness ==
  /\ buf = Emojis /\ call.op = "next_loop" /\ call.mode = "except"
  /\ ret.count = 3 /\ ret.ptr = 12 /\ At(Mem, ret.ptr) = 0

\* C22: for the one-byte string of every byte value 0..127, isspace,
\* isblank, isdigit, isalnum, isalpha, isxdigit, isupper and islower answer
\* as the C function of the same name does in the "C" locale.
C22_AsciiClasses ==
  (Len(buf) = 1 /\ buf[1] <= 127)
    => LET c == buf[1] IN
         /\ call.op = "isspace" => (ret.valid <=> C_isspace(c))
         /\ call.op = "isblank" => (ret.valid <=> C_isblank(c))
         /\ call.op = "isdigit" => (ret.valid <=> C_isdigit(c))
         /\ call.op = "isalnum" => (ret.valid <=> C_isalnum(c))
         /\ call.op = "isalpha" => (ret.valid <=> C_isalpha(c))
         /\ call.op = "isxdigit" => (ret.valid <=> C_isxdigit(c))
         /\ call.op = "isupper" => (ret.valid <=> C_isupper(c))
         /\ call.op = "islower" => (ret.valid <=> C_islower(c))

\* the horizontal tab is blank
C22_Witness ==
  /\ buf = <<9>> /\ call.op = "isblank" /\ ret.valid

\* C23: a PutString or DeleteKey applied to one key of one section leaves the
\* value read back for every other key of every section unchanged, and a
\* deleted key reads back as the caller's default value; names that are
\* prefixes of other names included.
C23_PutDeleteFrame ==
  [][\A o \in IniFiles, key \in Keys, section \in Sections :
       LET after == IF ini'.phase = "rename" THEN ini'.tmp
                    ELSE FileOf(ini'.disk, ini'.obj[o].filename)
       IN  /\ ((\E value \in Values : PutString(o, key, value, section))
                  \/ DeleteKey(o, key, section))
                => \A e \in Sections \X Keys :
                     e # <<section, key>>
                       => GetString(after, e[2], e[1], Default)
                            = GetString(ThisFile(o), e[2], e[1], Default)
           /\ DeleteKey(o, key, section)
                => GetString(after, key, section, Default) = Default]_vars

\* C24: the counted operations valid_str (s, nch), runes (s, nch) and
\* widen (s, nch) terminate for every buffer and every count, buffers with a
\* zero byte among the first nch bytes included: a call that was entered
\* returns or throws.
C24_CountedTerminates ==
  (pc \in {"valid_str", "runes", "widen"}) ~> (pc = "done")

\* C25: for every array of 16-bit units and every count nch > 0 the counted
\* conversion narrow (s, nch) reads only the first nch units of the array,
\* a count whose last unit is a high surrogate included, and terminates.
C25_NarrowCounted ==
  /\ [](call.op = "narrow_n" /\ call.nch > 0 => ret.ptr <= call.nch)
  /\ ((pc = "narrow_n" /\ call.nch > 0) ~> (pc = "done"))

\* C26: a well-formed byte sequence that contains the correctly encoded code
\* point U+FFFD (bytes EF BF BD) is reported valid: is_valid is true at the
\* position of that code point, and valid_str is true for every well-formed
\* string containing it, wherever it occurs in the string.
C26_EncodedFFFDValid ==
  (pc = "done" /\ WellFormed(buf) /\ NulFree(buf))
    => /\ (/\ call.op \in {"is_valid_ptr", "is_valid_it"}
           /\ call.ptr + 3 <= Len(buf)
           /\ SubSeq(buf, call.ptr + 1, call.ptr + 3) = <<239, 191, 189>>)
            => ret.valid
       /\ (/\ call.op = "valid_str" /\ call.nch = Len(buf)
           /\ ContainsFFFD(buf))
            => ret.valid

\* C27: for every buffer and count nch > 0 the counted operations
\* runes (s, nch), widen (s, nch) and valid_str (s, nch) never read a byte at
\* or beyond s + nch and produce no output derived from such a byte, a count
\* that ends in the middle of a multi-byte sequence included: the decoding
\* an iteration of their loops is about to do reads below s + nch only and
\* leaves the cursor at or below s + nch.
C27_CountedReadBound ==
  (/\ pc \in {"runes", "widen", "valid_str"} /\ call.nch > 0
   /\ loc.s < loc.last /\ loc.valid)
    => LET r == next_ptr(Mem, loc.s, ermode[call.thr]) IN
         /\ r.hi < loc.last
         /\ r.ptr <= loc.last

\* C28: when a high surrogate is followed by a 16-bit unit that is not a low
\* surrogate, only the high surrogate is replaced by U+FFFD under Replace and
\* the following unit is converted as a code unit of its own: the output is
\* the conversion of the units up to the high surrogate followed by the
\* conversion of the units after it.
C28_UnpairedHighKeepsNext ==
  LET ws == input.data
      whole == (call.op = "narrow_ws" /\ pc = "idle")
                 \/ (call.op = "narrow_n" /\ pc = "done" /\ call.nch = Len(ws))
  IN  (whole /\ call.mode = "replace" /\ input.kind = "wide")
        => \A i \in 1..(Len(ws) - 1) :
             (/\ IsHighSurrogate(ws[i]) /\ ~IsLowSurrogate(ws[i + 1])
              /\ (i = 1 \/ ~IsHighSurrogate(ws[i - 1])))
               => ret.out = narrow_ws(SubSeq(ws, 1, i), "replace").out
                              \o narrow_ws(SubSeq(ws, i + 1, Len(ws)), "replace").out

\* C29: assigning a string to a utf8::buffer, whatever the buffer's current
\* size, reads no element beyond the converted string and its terminator;
\* afterwards the buffer converts back to the assigned string and its size is
\* the larger of its previous size and the converted length plus one.
C29_BufferAssign ==
  (call.op = "buffer_assign" /\ ret.err = "none")
    => LET b == wbuf[call.ptr]
           back == narrow_ptr(b.ptr, call.mode)
       IN  /\ ret.hi <= ret.count
           /\ b.sz = IF ret.lo > ret.count THEN ret.lo ELSE ret.count
           /\ back.err = "none" /\ back.out = buf

\* C30: for every NUL-free byte sequence followed by a terminating NUL, every
\* cursor position before the end and either policy, next (const char*&) and
\* next (iterator&, last) given the same bytes return the same value or
\* report the same failure, and advance the cursor by the same number of
\* bytes.
C30_DecodersAgree ==
  (/\ call.op \in {"next_it", "next_ptr"} /\ pc = "done"
   /\ NulFree(buf) /\ call.ptr < Len(buf))
    => LET it == next_it(buf, call.ptr, Len(buf), call.mode)
           ptr == next_ptr(Mem, call.ptr, call.mode)
       IN  /\ it.rune = ptr.rune
           /\ it.err = ptr.err
           /\ it.ptr = ptr.ptr
           /\ ret.rune = it.rune /\ ret.err = it.err /\ ret.ptr = it.ptr

\* a truncated 3-byte sequence in front of 'A': both decoders fail and stop
\* on the 'A'
C30_Witness ==
  /\ buf = <<226, 130, 65>> /\ call.op = "next_ptr" /\ call.ptr = 0
  /\ pc = "done" /\ ret.bad /\ ret.ptr = 2
  /\ next_it(buf, 0, 3, call.mode).ptr = 2

====
